---- MODULE Spec2Model ----
(***************************************************************************)
(* Model of the beta run of ticker_factor_beta_loader.py (main and the     *)
(* helpers it calls), of the factor loop of factor_returns_loader.py and   *)
(* of the lag sweep of update_factor_lag_policy.py, of refresh_tokens of    *)
(* get_token.py and of the balance queries of main.py and main_local.py.   *)
(*                                                                         *)
(* Abstractions, all stated where they are made:                           *)
(*  - calendar dates are the integers 1..MaxDate, `end' is MaxDate;        *)
(*  - WINDOW_DAYS and MIN_NOBS keep their order (MIN_NOBS < WINDOW_DAYS)   *)
(*    but are scaled down from 252 and 60 so that TLC can enumerate every  *)
(*    presence pattern of a series;                                        *)
(*  - a security return is a small integer; a float result is kept as its  *)
(*    finiteness class ("finite", "nan"), which is all the payload         *)
(*    building looks at (np.isfinite);                                     *)
(*  - np.linalg.lstsq is an external solver: whether it raises, and the    *)
(*    finiteness of the coefficients it returns, are inputs of the step.   *)
(*                                                                         *)
(* The beta run has four specifications that share its actions and         *)
(* differ in the inputs drawn:                                             *)
(*  Spec          a run over every universe of up to MaxTickers            *)
(*                securities, with factor matrices and return series from  *)
(*                the small Batch* families;                               *)
(*  SpecSecurity  a run over one security, with every factor matrix over   *)
(*                Dates;                                                   *)
(*  SpecNumeric   a run over one security, with every finiteness class of  *)
(*                the solver's coefficients;                               *)
(*  SpecRerun     a run over one security followed by further runs on the  *)
(*                table and report the run before left.                    *)
(* The helpers and the companion programs have one specification each,     *)
(* whose Init draws the call's arguments and leaves the beta run idle:     *)
(*  SpecParse     parse_lag_policy on every policy text up to              *)
(*                MaxPolicyLen characters;                                 *)
(*  SpecLags      apply_factor_lags on frames of two factors;              *)
(*  SpecExpand    expand_monthly_to_daily_ret on a calendar whose months   *)
(*                have three and two days;                                 *)
(*  SpecLoader    the factor loop of factor_returns_loader.py;             *)
(*  SpecLoaderArgs  main of factor_returns_loader.py from its arguments    *)
(*                --factor-codes and --full-refresh on;                    *)
(*  SpecKeep      fred_fetch_series and the pivot of the factor matrix on  *)
(*                inputs that repeat a date;                               *)
(*  SpecPolicy    one metadata row of update_factor_lag_policy.py;         *)
(*  SpecCollab    one call of a select of the store or of the price        *)
(*                fetch, with every answer to each request;                *)
(*  SpecToken     refresh_tokens on every auth file of up to MaxEntries    *)
(*                entries;                                                 *)
(*  SpecBalance   one balance query, with every response to each request   *)
(*                (MAX_PAGES is scaled down from 20).                      *)
(***************************************************************************)
EXTENDS Integers, Sequences, FiniteSets, TLC

\* ---------------------------------------------------------------- bounds
MaxDate == 4
MaxTickers == 2

\* ------------------------------------------------ runtime config (scaled)
WINDOW_DAYS == 3
MIN_NOBS == 2
PRICE_INTERVAL == "1d"
LOOKBACK_WINDOW == "2y"
METHOD_MULTI == "OLS_MULTI"
\* mutant: the single pass labels its rows with the multi method
METHOD_SINGLE_asmulti == "OLS_MULTI"
METHOD_SINGLE == "OLS_SINGLE"

Dates == 1..MaxDate
end == MaxDate
\* the empty string written to asof_date when there is no regression date
NoDate == 0

\* main's factor_codes list, cut to its first two entries
factor_codes == <<"F_GROWTH_US_EQ", "F_RATE_US10Y">>
\* a further entry of main's list, used to extend the candidate set
EXTRA_FACTOR == "F_RATE_KR10Y"

Range(s) == {s[i] : i \in 1..Len(s)}

\* ---------------------------------------------------------- ticker rows
\* rows of ticker_category_map the model draws the universe from
TickerRows ==
  { [stock_code |-> "CASH",   yf_symbol |-> ""],
    [stock_code |-> "XYZ",    yf_symbol |-> ""],
    [stock_code |-> "AAPL",   yf_symbol |-> "AAPL"],
    [stock_code |-> "005930", yf_symbol |-> ""] }

\* codes matching \d{6}
is_krx_6digits(code) == code \in {"005930"}

to_pykrx_code(stock_code) ==
  IF is_krx_6digits(stock_code) THEN stock_code ELSE "None"

\* candidate Yahoo symbols of a code; "XYZ" matches none of the rules
generate_candidates(stock_code, yf_symbol) ==
  IF stock_code = "CASH" THEN <<>>
  ELSE IF yf_symbol # "" THEN <<yf_symbol>>
  ELSE IF is_krx_6digits(stock_code) THEN <<"005930.KS", "005930.KQ">>
  ELSE <<>>

\* ------------------------------------------------------- series helpers
\* a return series: dates present -> return (no NaN left after dropna).
\* "flat" is a security whose price never moves, "moving" one whose
\* return alternates.
EmptySeries == <<>>
SeriesOver(S, profile) == [d \in S |-> IF profile = "flat" THEN 0 ELSE d % 2]
Profiles == {"flat", "moving"}
BatchSeries == {SeriesOver(Dates, p) : p \in Profiles}
SecurityDomains == {Dates, 1..(MaxDate - 1), 2..MaxDate}
SecuritySeries == {SeriesOver(S, p) : S \in SecurityDomains, p \in Profiles}

\* ascending list of a set of dates (sort_index)
SortSet(S) ==
  [i \in 1..Cardinality(S) |-> CHOOSE d \in S : Cardinality({e \in S : e < d}) = i - 1]

\* mutant: the window keeps the earliest rows (iloc[:WINDOW_DAYS])
WindowTail_head(s) ==
  IF Len(s) > WINDOW_DAYS THEN SubSeq(s, 1, WINDOW_DAYS) ELSE s

\* df.iloc[-WINDOW_DAYS:] when len(df) > WINDOW_DAYS
WindowTail(s) ==
  IF Len(s) > WINDOW_DAYS THEN SubSeq(s, Len(s) - WINDOW_DAYS + 1, Len(s)) ELSE s

\* mutant: the as-of date is the run's end date
IndexMax_end(s) == end

\* df.index.max() of a non-empty sample; `end' when the index has no max
IndexMax(s) == IF Len(s) > 0 THEN s[Len(s)] ELSE end

\* --------------------------------------------------------- factor matrix
\* fwide: factor -> dates on which its aligned return is present.
\* pivot_table keeps a column only when it has a value and a row only
\* when some column has a value.
FwideColumns(fw) == {f \in DOMAIN fw : fw[f] # {}}
FwideIndex(fw) == UNION {fw[f] : f \in DOMAIN fw}
FwideEmpty(fw) == FwideIndex(fw) = {}

\* df = DataFrame({"ret_t": ret_t}).join(fwide, how="inner")
JoinIndex(rt, fw) == (DOMAIN rt) \cap FwideIndex(fw)

\* mutant: dropna() over the whole joined table
DropNa_anycol(rt, fw, cols) ==
  SortSet({d \in JoinIndex(rt, fw) : \A c \in FwideColumns(fw) : d \in fw[c]})

\* df[["ret_t"] + cols].dropna(): rows of the join with every col present
DropNa(rt, fw, cols) ==
  SortSet({d \in JoinIndex(rt, fw) : \A c \in cols : d \in fw[c]})

\* available_factors = [c for c in factor_codes if c in df.columns]
AvailableFactors(fw) == SelectSeq(factor_codes, LAMBDA c : c \in FwideColumns(fw))

\* ------------------------------------------------------------ regression
\* finiteness classes of a float
FloatClass == {"finite", "nan"}
isfinite(v) == v = "finite"

RECURSIVE SumSeq(_)
SumSeq(s) == IF Len(s) = 0 THEN 0 ELSE s[1] + SumSeq(Tail(s))

\* n * sum((y - mean(y))^2), which has the sign of ss_tot
SsTotTimesN(y) ==
  Len(y) * SumSeq([i \in 1..Len(y) |-> y[i] * y[i]]) - SumSeq(y) * SumSeq(y)

\* what lstsq may return for nreg regressors: the class of each of the
\* nreg+1 coefficients (intercept first), drawn from `classes'
CoefClasses(nreg, classes) == [1..(nreg + 1) -> classes]

\* mutant: r2 is 0.0 when ss_tot is 0
ols_multi_r2zero(y, coef) ==
  LET ss_res == IF \A i \in 1..Len(coef) : isfinite(coef[i]) THEN "finite" ELSE "nan"
      ss_tot_pos == SsTotTimesN(y) > 0
  IN [ beta  |-> Tail(coef),
       alpha |-> coef[1],
       r2    |-> IF ss_tot_pos THEN ss_res ELSE "finite" ]

\* ols_multi after lstsq returned coef: alpha = coef[0], beta = coef[1:],
\* y_hat = X1 @ coef, r2 = 1 - ss_res/ss_tot if ss_tot > 0 else nan.
\* A non-finite coefficient makes y_hat, ss_res and r2 non-finite.
ols_multi(y, coef) ==
  LET ss_res == IF \A i \in 1..Len(coef) : isfinite(coef[i]) THEN "finite" ELSE "nan"
      ss_tot_pos == SsTotTimesN(y) > 0
  IN [ beta  |-> Tail(coef),
       alpha |-> coef[1],
       r2    |-> IF ss_tot_pos THEN ss_res ELSE "nan" ]

\* float(v) if np.isfinite(v) else None
FloatOrNone(v) == IF isfinite(v) THEN v ELSE "null"

\* one payload row of ticker_factor_beta_long
BetaRow(asof, code, fc, beta, r2, n, sym, alpha, method) ==
  [ asof_date |-> asof, window_days |-> WINDOW_DAYS, stock_code |-> code,
    factor_code |-> fc, beta |-> FloatOrNone(beta), r2 |-> FloatOrNone(r2),
    n_obs |-> n, yf_symbol |-> sym, alpha |-> FloatOrNone(alpha),
    method |-> method, price_interval |-> PRICE_INTERVAL,
    lookback_window |-> LOOKBACK_WINDOW ]

\* the reason text of a report row: its leading tag, the numbers
\* formatted into it and the exception text it ends with
Reason(tag, n, nOk, nSkipped, text) ==
  [tag |-> tag, n_obs |-> n, ok_factors |-> nOk, skipped_factors |-> nSkipped,
   text |-> text]
PlainReason(tag) == Reason(tag, 0, 0, 0, "")

\* the report row of a security that never reaches the regressions
SkipRow(code, tag, sym) ==
  [ stock_code |-> code, status |-> "SKIP", reason |-> PlainReason(tag),
    used_symbol |-> sym, asof_date |-> NoDate, n_obs |-> 0,
    ok_factors |-> <<>>, skipped_factors |-> <<>>,
    single_ok_factors |-> <<>>, single_skipped_factors |-> <<>>,
    single_failed_factors |-> <<>>, single_status_map |-> <<>>,
    single_n_obs_map |-> <<>> ]

\* price sources tried in order: pykrx when the code maps to a KRX code,
\* then every Yahoo candidate
KrxSymbol(code) == IF code = "005930" THEN "KRX:005930" ELSE "KRX:None"
PriceSources(code, candidates) ==
  (IF to_pykrx_code(code) # "None" THEN <<KrxSymbol(code)>> ELSE <<>>) \o candidates

\* ----------------------------------------------------------------- state
VARIABLES
  pc,                      \* position in main
  tickers,                 \* fetch_all_tickers result
  fwide,                   \* date x factor matrix of aligned returns
  pos,                     \* index of the security being processed
  ret_t, used_symbol,      \* its return series and price source
  k,                       \* index into available_factors (single pass)
  single_ok_factors, single_skipped_factors, single_failed_factors,
  single_status_parts, single_n_obs_parts,
  ok_factors, overlap_map,
  fit,                     \* (beta, alpha, r2) of the latest ols_multi call
  exc_log,                 \* history: every exception the solver raised
  report_rows, upsert_rows,
  store,                   \* rows of ticker_factor_beta_long
  upsert_i,                \* start of the next upsert chunk
  report_csv               \* rows of beta_run_report.csv, none before the
                           \* first report (a report has a row per security)

\* the helpers of the factor pipeline and the two companion programs have
\* their own state; a run of the beta program leaves it alone
VARIABLES
  lpc, policy, lag,        \* parse_lag_policy: position, argument, result
  apc, fdf, aligned,       \* apply_factor_lags: position, argument, result
  epc, df, end_date, start_date, release_lag_months,
  daily,                   \* expand_monthly_to_daily_ret: position,
                           \* arguments, result
  spec_i,                  \* factor_returns_loader.main: index of the spec
                           \* of the loop, 0 before the loop
  target_factor_codes, full_refresh,   \* its arguments
  specs,                   \* the specs its loop runs over
  meta_map,                \* its snapshot of factor_metadata
  factor_returns,          \* the factor_returns table
  factor_metadata,         \* the factor_metadata table
  level,                   \* the level series of the latest fetch
  loader_log,              \* the [SKIP]/[FAIL]/[INFO]/[OK] lines printed
  npc,                     \* which of fred_fetch_series and the pivot of the
                           \* beta run is called, and whether it returned
  obs, fred_series,        \* fred_fetch_series: observations received, result
  pivoted,                 \* the pivot: the wide matrix with its values
  upc,                     \* update_factor_lag_policy.py: position in main
  frequency, dry_run,      \* the metadata row's frequency; the --dry-run flag
  factor_ret, ticker_ret,  \* dates of the factor's and the ticker's returns
  lag_ix,                  \* compute_best_lag: index of the next lag swept
  sweep_log,               \* per lag swept: its overlap and what OLS returned
  results, best,           \* compute_best_lag: results list, best (<<>>: None)
  lag_policy               \* factor_metadata.lag_policy of the factor

\* calls of the collaborators (the store, the price sources)
VARIABLES
  callee,                  \* the function called
  cpc,                     \* "call" while it runs, then how it ended
  page, attempt,           \* sb_select_all: page and attempt of the request
  call_log                 \* history: the answer to every request made

\* get_token.py: refresh_tokens
VARIABLES
  tpc,                     \* position in refresh_tokens
  auth_file,               \* the entries of kis_auth.json
  auth_data,               \* `data': the entries as loaded and then modified
  key_groups,              \* the app_keys of the groups, in insertion order
  group_i,                 \* index of the group of the loop
  updated,                 \* the flag `updated'
  group_log,               \* history: per group, its app_key, its first
                           \* entry as found and how the iteration went
  file_writes              \* history: number of calls of save_auth_data

\* main.py and main_local.py: fetch_balance_stock, fetch_balance_irp
VARIABLES
  fetcher,                 \* the function called
  bpc,                     \* "call" while it runs, then how it ended
  page_count, tot_amt,     \* its locals page_count and tot_amt
  cash_amt,                \* its local cash_amt: <<>> while unbound
  ctx_area_nk100,          \* the continuation key of the next request
  response_log             \* history: the response to every request made

\* the state of the beta run
betaVars == << pc, tickers, fwide, pos, ret_t, used_symbol, k,
           single_ok_factors, single_skipped_factors, single_failed_factors,
           single_status_parts, single_n_obs_parts, ok_factors, overlap_map,
           fit, exc_log, report_rows, upsert_rows, store, upsert_i, report_csv >>

parseVars == << lpc, policy, lag >>
lagVars == << apc, fdf, aligned >>
expandVars == << epc, df, end_date, start_date, release_lag_months, daily >>
loaderVars == << spec_i, target_factor_codes, full_refresh, specs, meta_map,
                factor_returns, factor_metadata, level, loader_log >>
keepVars == << npc, obs, fred_series, pivoted >>
policyVars == << upc, frequency, dry_run, factor_ret, ticker_ret, lag_ix,
                 sweep_log, results, best, lag_policy >>
helperVars == << parseVars, lagVars, expandVars, loaderVars, keepVars, policyVars >>
collabVars == << callee, cpc, page, attempt, call_log >>
tokenVars == << tpc, auth_file, auth_data, key_groups, group_i, updated,
               group_log, file_writes >>
balanceVars == << fetcher, bpc, page_count, tot_amt, cash_amt, ctx_area_nk100,
                 response_log >>
extVars == << collabVars, tokenVars, balanceVars >>
auxVars == << helperVars, extVars >>

vars == << betaVars, auxVars >>

\* policy = None
NONE == <<"None">>

\* start_date = None
NoStart == 0

\* parse_lag_policy is not called
ParseIdle ==
  /\ lpc = "idle"
  /\ policy = NONE
  /\ lag = 0

\* apply_factor_lags is not called
LagsIdle ==
  /\ apc = "idle"
  /\ fdf = <<>>
  /\ aligned = <<>>

\* expand_monthly_to_daily_ret is not called
ExpandIdle ==
  /\ epc = "idle"
  /\ df = <<>>
  /\ end_date = 1
  /\ start_date = NoStart
  /\ release_lag_months = 1
  /\ daily = <<>>

\* factor_returns_loader.main is not running
LoaderIdle ==
  /\ spec_i = 0
  /\ target_factor_codes = <<>>
  /\ full_refresh = FALSE
  /\ specs = <<>>
  /\ meta_map = <<>>
  /\ factor_returns = {}
  /\ factor_metadata = <<>>
  /\ level = <<>>
  /\ loader_log = <<>>

\* neither fred_fetch_series nor the pivot is called
KeepIdle ==
  /\ npc = "idle"
  /\ obs = <<>>
  /\ fred_series = <<>>
  /\ pivoted = <<>>

\* update_factor_lag_policy.py is not run
PolicyIdle ==
  /\ upc = "idle"
  /\ frequency = "D"
  /\ dry_run = FALSE
  /\ factor_ret = <<>>
  /\ ticker_ret = {}
  /\ lag_ix = 1
  /\ sweep_log = <<>>
  /\ results = <<>>
  /\ best = <<>>
  /\ lag_policy = NONE

\* no collaborator is being called
CollabIdle ==
  /\ callee = "none"
  /\ cpc = "idle"
  /\ page = 0
  /\ attempt = 1
  /\ call_log = <<>>

\* refresh_tokens is not running
TokenIdle ==
  /\ tpc = "idle"
  /\ auth_file = <<>>
  /\ auth_data = <<>>
  /\ key_groups = <<>>
  /\ group_i = 1
  /\ updated = FALSE
  /\ group_log = <<>>
  /\ file_writes = 0

\* no balance query is running
BalanceIdle ==
  /\ fetcher = "none"
  /\ bpc = "idle"
  /\ page_count = 0
  /\ tot_amt = 0
  /\ cash_amt = <<>>
  /\ ctx_area_nk100 = ""
  /\ response_log = <<>>

ExtIdle == CollabIdle /\ TokenIdle /\ BalanceIdle

HelpersIdle == ParseIdle /\ LagsIdle /\ ExpandIdle /\ LoaderIdle /\ KeepIdle /\ PolicyIdle

\* no helper has been called
AuxIdle == HelpersIdle /\ ExtIdle

tickerLocals == << ret_t, used_symbol, k,
           single_ok_factors, single_skipped_factors, single_failed_factors,
           single_status_parts, single_n_obs_parts, ok_factors, overlap_map, fit >>

\* no ols_multi call has returned yet
NoFit == [beta |-> <<>>, alpha |-> "unset", r2 |-> "unset"]

\* the beta program before main runs
BetaInit ==
  /\ pc = "fetch_tickers"
  /\ tickers = <<>>
  /\ fwide = [f \in Range(factor_codes) |-> {}]
  /\ pos = 1
  /\ ret_t = EmptySeries
  /\ used_symbol = ""
  /\ k = 1
  /\ single_ok_factors = <<>>
  /\ single_skipped_factors = <<>>
  /\ single_failed_factors = <<>>
  /\ single_status_parts = <<>>
  /\ single_n_obs_parts = <<>>
  /\ ok_factors = <<>>
  /\ overlap_map = <<>>
  /\ fit = NoFit
  /\ exc_log = <<>>
  /\ report_rows = <<>>
  /\ upsert_rows = <<>>
  /\ store = {}
  /\ upsert_i = 1
  /\ report_csv = <<>>

Init == BetaInit /\ AuxIdle

\* tickers = fetch_all_tickers(sb); an empty universe raises RuntimeError
\* The query orders by stock_code; the universes drawn have distinct codes.
CodeOrder == <<"005930", "AAPL", "CASH", "XYZ">>
CodeRank(code) == CHOOSE i \in 1..Len(CodeOrder) : CodeOrder[i] = code
Universes ==
  {u \in UNION {[1..n -> TickerRows] : n \in 0..MaxTickers} :
     \A i \in 1..(Len(u) - 1) : CodeRank(u[i].stock_code) < CodeRank(u[i + 1].stock_code)}
OneSecurity == {<<r>> : r \in {t \in TickerRows : t.stock_code = "AAPL"}}

FetchTickers(universes) ==
  /\ pc = "fetch_tickers"
  /\ \E u \in universes :
       /\ tickers' = u
       /\ pc' = IF u = <<>> THEN "raised" ELSE "build_factors"
  /\ UNCHANGED << fwide, pos, tickerLocals, exc_log, report_rows, upsert_rows,
                  store, upsert_i, report_csv >>
  /\ UNCHANGED auxVars

\* fetch_factor_returns, apply_factor_lags and the pivot to fwide
AllMatrices == [Range(factor_codes) -> SUBSET Dates]
\* per factor: no data, every date, the first MIN_NOBS dates, the last
\* MIN_NOBS dates
BatchMatrices ==
  [Range(factor_codes) -> {{}, Dates, 1..MIN_NOBS, (MaxDate - MIN_NOBS + 1)..MaxDate}]

BuildFactorMatrix(matrices) ==
  /\ pc = "build_factors"
  /\ \E fw \in matrices : fwide' = fw
  /\ pc' = "ticker"
  /\ UNCHANGED << tickers, pos, tickerLocals, exc_log, report_rows, upsert_rows,
                  store, upsert_i, report_csv >>
  /\ UNCHANGED auxVars

\* ------------------------------------------------------ per-security loop
\* mutant: the cash branch continues without a report row
AppendReport_skipcash(rows, row) ==
  IF row.reason.tag = "cash" THEN rows ELSE Append(rows, row)

\* report_rows.append(row)
AppendReport(rows, row) == Append(rows, row)

\* the texts of the exceptions lstsq can raise
ExcTexts == {"SVD did not converge in Linear Least Squares"}

AfterTicker == IF pos + 1 > Len(tickers) THEN "upsert" ELSE "ticker"

\* mutant: the joined frame is fwide itself, with the column ret_t added
FwideAfterJoin_aliased(rt, fw) ==
  [f \in DOMAIN fw \cup {"ret_t"} |-> IF f = "ret_t" THEN DOMAIN rt ELSE fw[f]]

\* fwide after df.join(fwide, how="inner"): the join returns a new frame
\* and leaves its argument as it was
FwideAfterJoin(rt, fw) == fw

\* the part of one loop iteration before the regressions: the cash and
\* candidate checks, the price fetch (pykrx first, then each Yahoo
\* candidate until one returns a non-empty series) and the factor check.
\* `hit' is the position in PriceSources of the first source that returns
\* data, 0 when none does; `series' is what that source returns.
StartTicker(seriesSet) ==
  /\ pc = "ticker"
  /\ pos <= Len(tickers)
  /\ LET stock_code == tickers[pos].stock_code
         candidates == generate_candidates(stock_code, tickers[pos].yf_symbol)
         sources    == PriceSources(stock_code, candidates)
         skip(row)  == /\ report_rows' = AppendReport(report_rows, row)
                       /\ pos' = pos + 1
                       /\ pc' = AfterTicker
                       /\ UNCHANGED tickerLocals
     IN IF stock_code = "CASH"
        THEN skip(SkipRow(stock_code, "cash", ""))
        ELSE IF candidates = <<>>
        THEN skip(SkipRow(stock_code, "no_yf_candidates", ""))
        ELSE \E hit \in 0..Len(sources) :
               IF hit = 0
               THEN skip(SkipRow(stock_code, "price_empty", candidates[1]))
               ELSE IF FwideEmpty(fwide)
               THEN skip(SkipRow(stock_code, "no_factors_in_db", sources[hit]))
               ELSE /\ \E series \in seriesSet : ret_t' = series
                    /\ used_symbol' = sources[hit]
                    /\ pc' = "single"
                    /\ UNCHANGED << pos, k, single_ok_factors, single_skipped_factors,
                                    single_failed_factors, single_status_parts,
                                    single_n_obs_parts, ok_factors, overlap_map,
                                    fit, report_rows >>
  /\ fwide' = IF pc' = "single" THEN FwideAfterJoin(ret_t', fwide) ELSE fwide
  /\ UNCHANGED << tickers, exc_log, upsert_rows, store, upsert_i, report_csv >>
  /\ UNCHANGED auxVars

\* mutant: the single pass drops rows on the security and the first
\* factor of the list instead of the factor being fitted
SingleSample_firstcol(rt, fw, fc) ==
  WindowTail(DropNa(rt, fw, {AvailableFactors(fw)[1]}))

\* df_single = df[["ret_t", fc]].dropna(), cut to the trailing window
SingleSample(rt, fw, fc) == WindowTail(DropNa(rt, fw, {fc}))

\* one iteration of `for fc in available_factors' of the single pass
SingleFactor(classes) ==
  /\ pc = "single"
  /\ k <= Len(AvailableFactors(fwide))
  /\ LET fc == AvailableFactors(fwide)[k]
         df_single == SingleSample(ret_t, fwide, fc)
         n_obs_single == Len(df_single)
         y_single == [i \in 1..n_obs_single |-> ret_t[df_single[i]]]
     IN /\ single_n_obs_parts' = Append(single_n_obs_parts, <<fc, n_obs_single>>)
        /\ IF n_obs_single < MIN_NOBS
           THEN /\ single_skipped_factors' = Append(single_skipped_factors, fc)
                /\ single_status_parts' = Append(single_status_parts, <<fc, "THIN">>)
                /\ UNCHANGED << single_failed_factors, single_ok_factors, upsert_rows,
                                fit, exc_log >>
           ELSE \E raised \in BOOLEAN, e \in ExcTexts, coef \in CoefClasses(1, classes) :
                  IF raised
                  THEN /\ single_failed_factors' = Append(single_failed_factors, fc)
                       /\ single_status_parts' = Append(single_status_parts, <<fc, "FAIL">>)
                       /\ exc_log' = Append(exc_log,
                               [pos |-> pos, stock_code |-> tickers[pos].stock_code,
                                method |-> METHOD_SINGLE, factor_code |-> fc, text |-> e])
                       /\ UNCHANGED << single_skipped_factors, single_ok_factors,
                                       upsert_rows, fit >>
                  ELSE LET res == ols_multi(y_single, coef)
                           asof_date_single == IndexMax(df_single)
                       IN /\ fit' = res
                          /\ upsert_rows' = Append(upsert_rows,
                               BetaRow(asof_date_single, tickers[pos].stock_code, fc,
                                       res.beta[1], res.r2, n_obs_single, used_symbol,
                                       res.alpha, METHOD_SINGLE))
                          /\ single_ok_factors' = Append(single_ok_factors, fc)
                          /\ single_status_parts' = Append(single_status_parts, <<fc, "OK">>)
                          /\ UNCHANGED << single_skipped_factors, single_failed_factors,
                                          exc_log >>
  /\ k' = k + 1
  /\ UNCHANGED << pc, tickers, fwide, pos, ret_t, used_symbol, ok_factors,
                  overlap_map, report_rows, store, upsert_i, report_csv >>
  /\ UNCHANGED auxVars

\* overlap = rows of df[["ret_t", fc]].dropna(), not cut to the window
Overlap(rt, fw, fc) == Len(DropNa(rt, fw, {fc}))

\* mutant: overlap > MIN_NOBS
OkFactors_strict(rt, fw) ==
  SelectSeq(AvailableFactors(fw), LAMBDA fc : Overlap(rt, fw, fc) > MIN_NOBS)

\* ok_factors: available factors with overlap >= MIN_NOBS, in list order
OkFactors(rt, fw) ==
  SelectSeq(AvailableFactors(fw), LAMBDA fc : Overlap(rt, fw, fc) >= MIN_NOBS)

\* the overlap loop that follows the single pass
ComputeOverlap ==
  /\ pc = "single"
  /\ k > Len(AvailableFactors(fwide))
  /\ overlap_map' = [fc \in Range(AvailableFactors(fwide)) |-> Overlap(ret_t, fwide, fc)]
  /\ ok_factors' = OkFactors(ret_t, fwide)
  /\ pc' = "multi"
  /\ UNCHANGED << tickers, fwide, pos, ret_t, used_symbol, k, single_ok_factors,
                  single_skipped_factors, single_failed_factors, single_status_parts,
                  single_n_obs_parts, fit, exc_log, report_rows, upsert_rows, store,
                  upsert_i, report_csv >>
  /\ UNCHANGED auxVars

\* skipped_factors = [fc for fc in factor_codes if fc not in ok_factors]
SkippedFactors(ok) == SelectSeq(factor_codes, LAMBDA fc : fc \notin Range(ok))

\* mutant: the multi pass drops rows on every available factor
MultiSample_allcols(rt, fw, ok) ==
  WindowTail(DropNa(rt, fw, Range(AvailableFactors(fw))))

\* df2 = df[["ret_t"] + ok_factors].dropna(), cut to the trailing window
MultiSample(rt, fw, ok) == WindowTail(DropNa(rt, fw, Range(ok)))

\* mutant: the thin check of the multi pass is missing
MultiThin_never(n) == FALSE

\* if multi_n_obs < MIN_NOBS
MultiThin(n) == n < MIN_NOBS

\* mutant: a successful multi regression appends no row
MultiRows_none(asof, code, ok, res, n, sym) == <<>>

\* the rows of `for i, fc in enumerate(ok_factors): upsert_rows.append(...)'
MultiRows(asof, code, ok, res, n, sym) ==
  [i \in 1..Len(ok) |->
     BetaRow(asof, code, ok[i], res.beta[i], res.r2, n, sym, res.alpha, METHOD_MULTI)]

\* the multi-factor block and the report row that ends the iteration
MultiFactor(classes) ==
  /\ pc = "multi"
  /\ LET stock_code == tickers[pos].stock_code
         skipped_factors == SkippedFactors(ok_factors)
         df2 == MultiSample(ret_t, fwide, ok_factors)
         multi_n_obs == IF ok_factors # <<>> THEN Len(df2) ELSE 0
         y == [i \in 1..Len(df2) |-> ret_t[df2[i]]]
         report(status, reason, asof) ==
           report_rows' = AppendReport(report_rows,
             [ stock_code |-> stock_code, status |-> status, reason |-> reason,
               used_symbol |-> used_symbol, asof_date |-> asof, n_obs |-> multi_n_obs,
               ok_factors |-> ok_factors, skipped_factors |-> skipped_factors,
               single_ok_factors |-> single_ok_factors,
               single_skipped_factors |-> single_skipped_factors,
               single_failed_factors |-> single_failed_factors,
               single_status_map |-> single_status_parts,
               single_n_obs_map |-> single_n_obs_parts ])
     IN IF ok_factors = <<>>
        THEN /\ report("SKIP", PlainReason("no_factor_overlap"), NoDate)
             /\ fit' = fit
             /\ UNCHANGED << upsert_rows, exc_log >>
        ELSE IF MultiThin(multi_n_obs)
        THEN /\ report("SKIP", Reason("thin", multi_n_obs, Len(ok_factors),
                                    Len(skipped_factors), ""), NoDate)
             /\ fit' = fit
             /\ UNCHANGED << upsert_rows, exc_log >>
        ELSE \E raised \in BOOLEAN, e \in ExcTexts,
                coef \in CoefClasses(Len(ok_factors), classes) :
               IF raised
               THEN /\ report("FAIL", Reason("ols_exception", 0, 0, 0, e), NoDate)
                    /\ exc_log' = Append(exc_log,
                            [pos |-> pos, stock_code |-> stock_code, method |-> METHOD_MULTI,
                             factor_code |-> "", text |-> e])
                    /\ fit' = fit
                    /\ UNCHANGED upsert_rows
               ELSE LET res == ols_multi(y, coef)
                        asof_date == IndexMax(df2)
                    IN /\ fit' = res
                       /\ report("OK", Reason("ok_factors", 0, Len(ok_factors),
                                     Len(skipped_factors), ""), asof_date)
                       /\ upsert_rows' = upsert_rows \o
                            MultiRows(asof_date, stock_code, ok_factors, res,
                                      multi_n_obs, used_symbol)
                       /\ UNCHANGED exc_log
  /\ pos' = pos + 1
  /\ pc' = AfterTicker
  /\ ret_t' = EmptySeries
  /\ used_symbol' = ""
  /\ k' = 1
  /\ single_ok_factors' = <<>>
  /\ single_skipped_factors' = <<>>
  /\ single_failed_factors' = <<>>
  /\ single_status_parts' = <<>>
  /\ single_n_obs_parts' = <<>>
  /\ ok_factors' = <<>>
  /\ overlap_map' = <<>>
  /\ UNCHANGED << tickers, fwide, store, upsert_i, report_csv >>
  /\ UNCHANGED auxVars

\* ------------------------------------------------------------ persistence
\* scaled from 500
UPSERT_CHUNK_SIZE == 3

\* mutant: the conflict target leaves out the method
ConflictKey_nomethod(r) ==
  << r.asof_date, r.window_days, r.stock_code, r.factor_code,
     r.price_interval, r.lookback_window >>

\* on_conflict of upsert_beta_rows
ConflictKey(r) ==
  << r.asof_date, r.window_days, r.stock_code, r.factor_code, r.method,
     r.price_interval, r.lookback_window >>

Min(a, b) == IF a < b THEN a ELSE b

\* the store's upsert of one chunk on the conflict key: a row of the chunk
\* replaces the stored row of the same key
UpsertInto(st, chunk) ==
  {r \in st : \A i \in 1..Len(chunk) : ConflictKey(chunk[i]) # ConflictKey(r)}
    \cup {chunk[i] : i \in {j \in 1..Len(chunk) :
                        \A h \in (j + 1)..Len(chunk) :
                          ConflictKey(chunk[h]) # ConflictKey(chunk[j])}}

\* upsert_beta_rows, one chunk per step; a store failure is re-raised by
\* main before the report is written
UpsertChunk ==
  /\ pc = "upsert"
  /\ upsert_i <= Len(upsert_rows)
  /\ LET chunk == SubSeq(upsert_rows, upsert_i,
                         Min(upsert_i + UPSERT_CHUNK_SIZE - 1, Len(upsert_rows)))
     IN \E ok \in BOOLEAN :
          IF ok
          THEN /\ store' = UpsertInto(store, chunk)
               /\ upsert_i' = upsert_i + UPSERT_CHUNK_SIZE
               /\ pc' = "upsert"
          ELSE /\ pc' = "raised"
               /\ UNCHANGED << store, upsert_i >>
  /\ UNCHANGED << tickers, fwide, pos, tickerLocals, exc_log, report_rows,
                  upsert_rows, report_csv >>
  /\ UNCHANGED auxVars

\* rep.to_csv(REPORT_CSV_PATH) once every chunk is stored
WriteReport ==
  /\ pc = "upsert"
  /\ upsert_i > Len(upsert_rows)
  /\ report_csv' = report_rows
  /\ pc' = "done"
  /\ UNCHANGED << tickers, fwide, pos, tickerLocals, exc_log, report_rows,
                  upsert_rows, store, upsert_i >>
  /\ UNCHANGED auxVars

Next ==
  \/ FetchTickers(Universes)
  \/ BuildFactorMatrix(BatchMatrices)
  \/ StartTicker(BatchSeries)
  \/ SingleFactor({"finite"})
  \/ ComputeOverlap
  \/ MultiFactor({"finite"})
  \/ UpsertChunk
  \/ WriteReport

Spec == Init /\ [][Next]_vars

NextSecurity ==
  \/ FetchTickers(OneSecurity)
  \/ BuildFactorMatrix(AllMatrices)
  \/ StartTicker(SecuritySeries)
  \/ SingleFactor({"finite"})
  \/ ComputeOverlap
  \/ MultiFactor({"finite"})
  \/ UpsertChunk
  \/ WriteReport

SpecSecurity == Init /\ [][NextSecurity]_vars

NextNumeric ==
  \/ FetchTickers(OneSecurity)
  \/ BuildFactorMatrix(BatchMatrices)
  \/ StartTicker(SecuritySeries)
  \/ SingleFactor(FloatClass)
  \/ ComputeOverlap
  \/ MultiFactor(FloatClass)
  \/ UpsertChunk
  \/ WriteReport

SpecNumeric == Init /\ [][NextNumeric]_vars

\* ------------------------------------------------------------- second run
\* the one return series every price source serves in SpecRerun
RerunSeries == {SeriesOver(Dates, "moving")}

\* main is started again after a finished run, against the same ticker map
\* and factor store: fetch_all_tickers and the factor pivot return what they
\* returned before, the lists of main start empty, and the table and the
\* report file are as the finished run left them.
Rerun ==
  /\ pc = "done"
  /\ pc' = "ticker"
  /\ pos' = 1
  /\ report_rows' = <<>>
  /\ upsert_rows' = <<>>
  /\ upsert_i' = 1
  /\ exc_log' = <<>>
  /\ fit' = NoFit
  /\ UNCHANGED << tickers, fwide, ret_t, used_symbol, k, single_ok_factors,
                  single_skipped_factors, single_failed_factors,
                  single_status_parts, single_n_obs_parts, ok_factors,
                  overlap_map, store, report_csv >>
  /\ UNCHANGED auxVars

NextRerun ==
  \/ FetchTickers(OneSecurity)
  \/ BuildFactorMatrix(BatchMatrices)
  \/ StartTicker(RerunSeries)
  \/ SingleFactor({"finite"})
  \/ ComputeOverlap
  \/ MultiFactor({"finite"})
  \/ UpsertChunk
  \/ WriteReport
  \/ Rerun

SpecRerun == Init /\ [][NextRerun]_vars

\* ------------------------------------------------------- parse_lag_policy
LAG_POLICY_DEFAULT == 0
\* longest policy text drawn
MaxPolicyLen == 4

\* the characters \d matches
Digits == {"0", "1", "2", "3", "4", "5", "6", "7", "8", "9"}
Signs == {"+", "-"}
\* the characters policy texts are made of: signs, three digits and a letter
PolicyChars == Signs \cup {"0", "1", "2"} \cup {"d"}
PolicyTexts == UNION {[1..n -> PolicyChars] : n \in 0..MaxPolicyLen}

DigitValue(c) ==
  CASE c = "0" -> 0 [] c = "1" -> 1 [] c = "2" -> 2 [] c = "3" -> 3 [] c = "4" -> 4
    [] c = "5" -> 5 [] c = "6" -> 6 [] c = "7" -> 7 [] c = "8" -> 8 [] c = "9" -> 9

\* int() of a text of decimal digits
RECURSIVE DecimalValue(_)
DecimalValue(ds) ==
  IF Len(ds) = 0 THEN 0
  ELSE 10 * DecimalValue(SubSeq(ds, 1, Len(ds) - 1)) + DigitValue(ds[Len(ds)])

\* int() of a match of [-+]?\d+ (it raises ValueError only for a digit run
\* longer than the interpreter's limit, far beyond MaxPolicyLen)
IntOf(m) ==
  IF m[1] = "-" THEN 0 - DecimalValue(Tail(m))
  ELSE IF m[1] = "+" THEN DecimalValue(Tail(m))
  ELSE DecimalValue(m)

\* \d+ matched greedily at position i: the end of the digit run, i - 1 when
\* text[i] is not a digit
RECURSIVE DigitRunEnd(_, _)
DigitRunEnd(text, i) ==
  IF i <= Len(text) /\ text[i] \in Digits THEN DigitRunEnd(text, i + 1) ELSE i - 1

\* mutant: the pattern is \d+
MatchAt_unsigned(text, i) ==
  IF DigitRunEnd(text, i) >= i THEN SubSeq(text, i, DigitRunEnd(text, i)) ELSE <<>>

\* [-+]?\d+ matched at position i (the sign is tried first, then the match
\* without it); <<>> when the pattern does not match there
MatchAt(text, i) ==
  IF text[i] \in Signs /\ DigitRunEnd(text, i + 1) >= i + 1
  THEN SubSeq(text, i, DigitRunEnd(text, i + 1))
  ELSE IF DigitRunEnd(text, i) >= i
  THEN SubSeq(text, i, DigitRunEnd(text, i))
  ELSE <<>>

\* re.search: the match at the leftmost position that has one
RECURSIVE Search(_, _)
Search(text, i) ==
  IF i > Len(text) THEN <<>>
  ELSE IF MatchAt(text, i) # <<>> THEN MatchAt(text, i)
  ELSE Search(text, i + 1)

parse_lag_policy(p) ==
  IF p = NONE \/ p = <<>> THEN LAG_POLICY_DEFAULT
  ELSE IF Search(p, 1) = <<>> THEN LAG_POLICY_DEFAULT
  ELSE IntOf(Search(p, 1))

\* a caller passes a policy
InitParse ==
  /\ BetaInit
  /\ ExtIdle
  /\ PolicyIdle
  /\ KeepIdle
  /\ LagsIdle
  /\ ExpandIdle
  /\ LoaderIdle
  /\ lpc = "call"
  /\ policy \in PolicyTexts \cup {NONE}
  /\ lag = 0

ParseLagPolicy ==
  /\ lpc = "call"
  /\ lag' = parse_lag_policy(policy)
  /\ lpc' = "returned"
  /\ UNCHANGED << betaVars, extVars, policy, lagVars, expandVars, loaderVars, keepVars, policyVars >>

NextParse == ParseLagPolicy

SpecParse == InitParse /\ [][NextParse]_vars

\* ------------------------------------------------------ apply_factor_lags
\* two entries of main's factor_codes in list order, which is not their
\* sort order
LagFactors == <<"F_RATE_US10Y", "F_RATE_KR10Y">>
\* the order sort_values gives factor codes
SortedCodes == <<"F_GROWTH_US_EQ", "F_RATE_KR10Y", "F_RATE_US10Y">>
SortRank(fc) == CHOOSE i \in 1..Len(SortedCodes) : SortedCodes[i] = fc

\* the ret stored for a factor on a date; no two rows share a value
RawRet(fc, d) == 10 * SortRank(fc) + d

\* lag_policy texts of factor_returns rows
LagPolicies == {NONE, <<"1">>, <<"-", "1">>, <<"+", "2">>, <<"l", "a", "g", "-", "2">>}

\* fetch_factor_returns_one: the rows of one factor over the dates D,
\* ascending by record_date, each with the factor's lag_policy
FactorFrame(fc, D, p) ==
  [i \in 1..Cardinality(D) |->
     [factor_code |-> fc, record_date |-> SortSet(D)[i],
      ret |-> RawRet(fc, SortSet(D)[i]), lag_policy |-> p]]

\* fetch_factor_returns: the frames concatenated in list order
RECURSIVE ConcatFrames(_)
ConcatFrames(frames) ==
  IF Len(frames) = 0 THEN <<>> ELSE frames[1] \o ConcatFrames(Tail(frames))

RawFrames ==
  {ConcatFrames([i \in 1..Len(LagFactors) |-> FactorFrame(LagFactors[i], D[i], p[i])]) :
     D \in [1..Len(LagFactors) -> SUBSET Dates],
     p \in [1..Len(LagFactors) -> LagPolicies]}

\* sort_values(["factor_code", "record_date"])
RowBefore(a, b) ==
  \/ SortRank(a.factor_code) < SortRank(b.factor_code)
  \/ a.factor_code = b.factor_code /\ a.record_date < b.record_date
SortRows(f) ==
  [i \in 1..Len(f) |->
     CHOOSE r \in Range(f) : Cardinality({q \in Range(f) : RowBefore(q, r)}) = i - 1]

\* g of `for fc, g in out.groupby("factor_code", sort=False)'
Group(out, fc) == SelectSeq(out, LAMBDA r : r.factor_code = fc)

\* non_null.iloc[0] of the group's lag_policy column, None when every
\* lag_policy of the group is null
FirstLagPolicy(g) ==
  LET non_null == SelectSeq(g, LAMBDA r : r.lag_policy # NONE)
  IN IF non_null = <<>> THEN NONE ELSE non_null[1].lag_policy

\* mutant: the series is shifted the other way
Shift_negated(s, n) ==
  [i \in 1..Len(s) |->
     IF i + n \in 1..Len(s) THEN [nan |-> FALSE, v |-> s[i + n]]
     ELSE [nan |-> TRUE, v |-> 0]]

\* s.shift(n): position i takes the value of position i - n, NaN when there
\* is no such position
Shift(s, n) ==
  [i \in 1..Len(s) |->
     IF i - n \in 1..Len(s) THEN [nan |-> FALSE, v |-> s[i - n]]
     ELSE [nan |-> TRUE, v |-> 0]]

\* the aligned_ret column after the loop over the groups: the row at
\* position i of out is row number (rows of its factor up to i) of its group
AlignedColumn(out) ==
  [i \in 1..Len(out) |->
     LET g == Group(out, out[i].factor_code)
         shifted == Shift([j \in 1..Len(g) |-> g[j].ret],
                          parse_lag_policy(FirstLagPolicy(g)))
     IN shifted[Len(Group(SubSeq(out, 1, i), out[i].factor_code))]]

\* apply_factor_lags: sort, shift every group by its lag, drop the rows
\* whose aligned_ret is NaN
apply_factor_lags(f) ==
  IF f = <<>> THEN <<>>
  ELSE LET out == SortRows(f)
           col == AlignedColumn(out)
           kept == SelectSeq([i \in 1..Len(out) |-> i], LAMBDA i : ~col[i].nan)
       IN [j \in 1..Len(kept) |->
             [factor_code |-> out[kept[j]].factor_code,
              record_date |-> out[kept[j]].record_date,
              ret |-> out[kept[j]].ret,
              lag_policy |-> out[kept[j]].lag_policy,
              aligned_ret |-> col[kept[j]].v]]

InitLags ==
  /\ BetaInit
  /\ ExtIdle
  /\ PolicyIdle
  /\ KeepIdle
  /\ ParseIdle
  /\ ExpandIdle
  /\ LoaderIdle
  /\ apc = "call"
  /\ fdf \in RawFrames
  /\ aligned = <<>>

ApplyFactorLags ==
  /\ apc = "call"
  /\ aligned' = apply_factor_lags(fdf)
  /\ apc' = "returned"
  /\ UNCHANGED << betaVars, extVars, parseVars, fdf, expandVars, loaderVars, keepVars, policyVars >>

NextLags == ApplyFactorLags

SpecLags == InitLags /\ [][NextLags]_vars

\* -------------------------------------------- expand_monthly_to_daily_ret
\* The calendar of this helper is the days 1, 2, ... grouped in months of
\* alternately LongMonth and ShortMonth days, so that a day-of-month can be
\* missing from the month an offset lands in.
LongMonth == 3
ShortMonth == 2
TwoMonths == LongMonth + ShortMonth

\* month number (from 1) and day of month of a day
MonthOf(d) ==
  2 * ((d - 1) \div TwoMonths) + (IF ((d - 1) % TwoMonths) < LongMonth THEN 1 ELSE 2)
DayOfMonth(d) ==
  IF ((d - 1) % TwoMonths) < LongMonth
  THEN ((d - 1) % TwoMonths) + 1
  ELSE ((d - 1) % TwoMonths) - LongMonth + 1
MonthLength(m) == IF (m % 2) = 1 THEN LongMonth ELSE ShortMonth
FirstOfMonth(m) ==
  TwoMonths * ((m - 1) \div 2) + (IF (m % 2) = 1 THEN 1 ELSE LongMonth + 1)

\* d + pd.DateOffset(months=n): the same day of the month n months on, the
\* last day of that month when it is shorter
AddMonths(d, n) ==
  FirstOfMonth(MonthOf(d) + n) + Min(DayOfMonth(d), MonthLength(MonthOf(d) + n)) - 1

\* observation dates of the monthly factor and the days a window can end on
ObsDays == 1..(MaxDate + 1)
CalendarDays == 1..(2 * MaxDate)
\* the ret of the observation of a day; never 0.0
ObsRet(d) == 100 + d

\* the frames fetch_factor_returns_one returns: rows ascending by date
MonthlyFrames ==
  {[i \in 1..Cardinality(D) |->
      [record_date |-> SortSet(D)[i], ret |-> ObsRet(SortSet(D)[i])]] :
     D \in SUBSET ObsDays}

\* ret_map: release date -> ret, a later row replacing an earlier one of
\* the same release date
RetMap(f, n) ==
  [d \in {AddMonths(f[i].record_date, n) : i \in 1..Len(f)} |->
     LET last == CHOOSE i \in 1..Len(f) :
                   /\ AddMonths(f[i].record_date, n) = d
                   /\ \A j \in (i + 1)..Len(f) : AddMonths(f[j].record_date, n) # d
     IN f[last].ret]

\* mutant: the latest release date
MinOf_latest(S) == CHOOSE d \in S : \A e \in S : d >= e

\* min(ret_map.keys())
MinOf(S) == CHOOSE d \in S : \A e \in S : d <= e
Max(a, b) == IF a > b THEN a ELSE b

\* mutant: the calendar starts at start_date when one is given
WindowStart_unclamped(ret_map, sd) ==
  IF sd # NoStart THEN sd ELSE MinOf(DOMAIN ret_map)

\* start = start_date or min(ret_map.keys()); start = max(start, min(...))
WindowStart(ret_map, sd) ==
  Max(IF sd # NoStart THEN sd ELSE MinOf(DOMAIN ret_map), MinOf(DOMAIN ret_map))

expand_monthly_to_daily_ret(f, ed, sd, n) ==
  IF f = <<>> THEN <<>>
  ELSE LET ret_map == RetMap(f, n)
           start == WindowStart(ret_map, sd)
       IN IF start > ed THEN <<>>
          ELSE [i \in 1..(ed - start + 1) |->
                  [record_date |-> start + i - 1,
                   ret |-> IF start + i - 1 \in DOMAIN ret_map
                           THEN ret_map[start + i - 1] ELSE 0,
                   frequency |-> "D"]]

InitExpand ==
  /\ BetaInit
  /\ ExtIdle
  /\ PolicyIdle
  /\ KeepIdle
  /\ ParseIdle
  /\ LagsIdle
  /\ LoaderIdle
  /\ epc = "call"
  /\ df \in MonthlyFrames
  /\ end_date \in CalendarDays
  /\ start_date \in {NoStart} \cup CalendarDays
  /\ release_lag_months \in {0, 1}
  /\ daily = <<>>

ExpandMonthly ==
  /\ epc = "call"
  /\ daily' = expand_monthly_to_daily_ret(df, end_date, start_date, release_lag_months)
  /\ epc' = "returned"
  /\ UNCHANGED << betaVars, extVars, parseVars, lagVars, df, end_date, start_date,
                  release_lag_months, loaderVars, keepVars, policyVars >>

NextExpand == ExpandMonthly

SpecExpand == InitExpand /\ [][NextExpand]_vars

\* --------------------------------------------- factor_returns_loader.py
\* scaled from 3 and 14 days and from 5 years
BACKFILL_DAYS_DAILY == 2
LOOKBACK_DAYS_DAILY == 1
DefaultSpan == 2
\* 8.5 years, in tenths
DURATION_US10Y == 85

default_start == end - DefaultSpan

\* two FRED daily entries of build_factor_specs
LoaderSpecs ==
  << [factor_code |-> "F_RATE_US10Y", source |-> "FRED", frequency |-> "D",
      ret_type |-> "duration_return", duration_years |-> DURATION_US10Y],
     [factor_code |-> "F_CURVE_US_2Y10Y", source |-> "FRED", frequency |-> "D",
      ret_type |-> "diff_pp", duration_years |-> 0] >>

\* a float of the ret column: NaN, or num/den, or ln(num/den) when log
RetNaN == [nan |-> TRUE, log |-> FALSE, num |-> 0, den |-> 1]
RetOf(isLog, n, d) == [nan |-> FALSE, log |-> isLog, num |-> n, den |-> d]

SupportedRetTypes == {"log_return", "diff_pp", "duration_return"}

\* the return of one date under a rule, from its level and the one before
StepRet(rule, duration_years, cur, prev) ==
  CASE rule = "log_return" -> RetOf(TRUE, cur, prev)
    [] rule = "diff_pp" -> RetOf(FALSE, cur - prev, 1)
    [] rule = "duration_return" ->
         RetOf(FALSE, (0 - duration_years) * (cur - prev), 1000)

\* x - x.shift(1), position by position: NaN at the first date
ReturnsOver(lv, rule, duration_years) ==
  [i \in 1..Len(lv) |->
     [date |-> lv[i].date,
      ret |-> IF i = 1 THEN RetNaN
              ELSE StepRet(rule, duration_years, lv[i].v, lv[i - 1].v)]]

\* mutant: a rule that is not known is handled as diff_pp
compute_returns_lenient(lv, ret_type, duration_years) ==
  IF ret_type = "log_return"
  THEN [raised |-> FALSE,
        series |-> ReturnsOver(SelectSeq(lv, LAMBDA r : r.v > 0), ret_type,
                               duration_years)]
  ELSE IF ret_type = "duration_return"
  THEN [raised |-> FALSE, series |-> ReturnsOver(lv, ret_type, duration_years)]
  ELSE [raised |-> FALSE, series |-> ReturnsOver(lv, "diff_pp", duration_years)]

\* compute_returns on a level series without NaN: raised tells whether it
\* raised ValueError, series is what it returned
compute_returns(lv, ret_type, duration_years) ==
  IF ret_type = "log_return"
  THEN [raised |-> FALSE,
        series |-> ReturnsOver(SelectSeq(lv, LAMBDA r : r.v > 0), ret_type,
                               duration_years)]
  ELSE IF ret_type \in {"diff_pp", "duration_return"}
  THEN [raised |-> FALSE, series |-> ReturnsOver(lv, ret_type, duration_years)]
  ELSE [raised |-> TRUE, series |-> <<>>]

\* level series a source returns: consecutive days, rising levels or levels
\* that start non-positive
LevelProfiles == {"rising", "dipping"}
LevelAt(profile, d) == IF profile = "rising" THEN d ELSE d - 2
LevelSeries ==
  {[i \in 1..(b - a + 1) |-> [date |-> a + i - 1, v |-> LevelAt(pr, a + i - 1)]] :
     a \in Dates, b \in Dates, pr \in LevelProfiles}

\* ret_type texts a factor_metadata row can hold, "None" for no value
MetaRetTypes == {"None", "log_return", "pct_change"}
\* factor_metadata rows before the run, cut to ret_type and source; no
\* row has a source yet
MetaTables ==
  [{LoaderSpecs[i].factor_code : i \in 1..Len(LoaderSpecs)} ->
     [ret_type : MetaRetTypes, source : {"None"}, lag_policy : {"None"}]]

\* mutant: the dict has no entry
LAG_POLICY_BY_FACTOR_empty(code) == "None"

\* the delay-sensitive factors and their default policy, "None" for a code
\* that is no key of the dict
LAG_POLICY_BY_FACTOR(code) == IF code = "F_SECTOR_US_TECH" THEN "1" ELSE "None"

\* _meta_value: None for a text that is empty once stripped
MetaValue(v) == IF v \in {"", " "} THEN "None" ELSE v

\* fetch_factor_metadata_map: the rows of the codes, through _meta_value
fetch_factor_metadata_map(table) ==
  [code \in DOMAIN table |->
     [ret_type |-> MetaValue(table[code].ret_type),
      source |-> MetaValue(table[code].source),
      lag_policy |-> MetaValue(table[code].lag_policy)]]

\* supabase_upsert_factor_metadata: the fields `existing' lacks are written
UpsertMetadata(row, existing, source, ret_type, lagp) ==
  [ret_type |-> IF existing.ret_type = "None" THEN ret_type ELSE row.ret_type,
   source   |-> IF existing.source = "None" THEN source ELSE row.source,
   lag_policy |-> IF MetaValue(existing.lag_policy) = "None" /\ lagp # "None"
                  THEN lagp ELSE row.lag_policy]

\* factor_returns before the run: empty, or one stored day of a factor
StoredRow(code, d) == [factor_code |-> code, record_date |-> d, level |-> 9, ret |-> RetNaN]
PriorReturns ==
  {{}} \cup {{StoredRow(LoaderSpecs[1].factor_code, d)} : d \in {1, MaxDate}}

\* supabase_get_last_date, NoDate for None
LastDate(table, code) ==
  LET ds == {r.record_date : r \in {q \in table : q.factor_code = code}}
  IN IF ds = {} THEN NoDate ELSE CHOOSE d \in ds : \A e \in ds : e <= d

\* mutant: the rows whose ret is NaN are not built
LoaderRows_dropnull(code, lv, series, start_store) ==
  LET withRet == [i \in 1..Len(lv) |->
                    [factor_code |-> code, record_date |-> lv[i].date, level |-> lv[i].v,
                     ret |-> IF \E j \in 1..Len(series) : series[j].date = lv[i].date
                             THEN (CHOOSE r \in Range(series) : r.date = lv[i].date).ret
                             ELSE RetNaN]]
  IN SelectSeq(withRet, LAMBDA r : r.record_date >= start_store /\ ~r.ret.nan)

\* df = DataFrame({"level": level, "ret": ret}).sort_index(), cut to the
\* dates from start_store on, as the rows main builds from it
LoaderRows(code, lv, series, start_store) ==
  LET withRet == [i \in 1..Len(lv) |->
                    [factor_code |-> code, record_date |-> lv[i].date, level |-> lv[i].v,
                     ret |-> IF \E j \in 1..Len(series) : series[j].date = lv[i].date
                             THEN (CHOOSE r \in Range(series) : r.date = lv[i].date).ret
                             ELSE RetNaN]]
  IN SelectSeq(withRet, LAMBDA r : r.record_date >= start_store)

\* start_store of a daily factor: the backfill window before the last
\* stored date, not before default_start
StartStore(table, code) ==
  IF LastDate(table, code) # NoDate
  THEN Max(Min(LastDate(table, code), end) - (BACKFILL_DAYS_DAILY - 1), default_start)
  ELSE default_start

\* upsert on_conflict="factor_code,record_date"
UpsertReturns(table, rows) ==
  {r \in table : \A i \in 1..Len(rows) :
        <<rows[i].factor_code, rows[i].record_date>> # <<r.factor_code, r.record_date>>}
    \cup Range(rows)

\* main up to the loop: specs, meta_map = fetch_factor_metadata_map
InitLoader ==
  /\ BetaInit
  /\ ExtIdle
  /\ PolicyIdle
  /\ KeepIdle
  /\ ParseIdle
  /\ LagsIdle
  /\ ExpandIdle
  /\ spec_i = 1
  /\ target_factor_codes = [i \in 1..Len(LoaderSpecs) |-> LoaderSpecs[i].factor_code]
  /\ full_refresh = FALSE
  /\ specs = LoaderSpecs
  /\ factor_metadata \in MetaTables
  /\ meta_map = fetch_factor_metadata_map(factor_metadata)
  /\ factor_returns \in PriorReturns
  /\ level = <<>>
  /\ loader_log = <<>>

\* one iteration of `for spec in specs'; the source answers with a series
\* of `levels' from start_fetch on, or the fetch raises
ProcessFactor(levels) ==
  /\ spec_i \in 1..Len(specs)
  /\ LET spec == specs[spec_i]
         code == spec.factor_code
         meta == meta_map[code]
         ret_type == IF meta.ret_type # "None" THEN meta.ret_type ELSE spec.ret_type
         lagp == IF meta.lag_policy # "None" THEN meta.lag_policy
                 ELSE LAG_POLICY_BY_FACTOR(code)
         source == IF meta.source # "None" THEN meta.source ELSE spec.source
         start_store == StartStore(factor_returns, code)
         start_fetch == start_store - LOOKBACK_DAYS_DAILY
         say(tag) == loader_log' = Append(loader_log, <<code, tag>>)
         nothing == UNCHANGED << factor_returns, factor_metadata >>
     IN IF start_store > end
        THEN say("SKIP") /\ nothing /\ UNCHANGED level
        ELSE \E fetched \in BOOLEAN, meta_ok \in BOOLEAN, rows_ok \in BOOLEAN,
                lv \in {SelectSeq(l, LAMBDA r : r.date >= start_fetch) : l \in levels} :
               IF ~fetched
               THEN say("FAIL fetch") /\ nothing /\ UNCHANGED level
               ELSE
                 /\ level' = lv
                 /\ IF Len(lv) < 2
                    THEN say("INFO short") /\ nothing
                    ELSE LET res == compute_returns(lv, ret_type, spec.duration_years)
                             rows == LoaderRows(code, lv, res.series, start_store)
                         IN IF res.raised
                            THEN say("FAIL transform") /\ nothing
                            ELSE IF rows = <<>>
                            THEN say("INFO no new rows") /\ nothing
                            ELSE /\ factor_metadata' =
                                      IF meta_ok
                                      THEN [factor_metadata EXCEPT ![code] =
                                              UpsertMetadata(@, meta, source, ret_type, lagp)]
                                      ELSE factor_metadata
                                 /\ IF rows_ok
                                    THEN /\ factor_returns' = UpsertReturns(factor_returns, rows)
                                         /\ say("OK")
                                    ELSE /\ say("FAIL transform")
                                         /\ UNCHANGED factor_returns
  /\ spec_i' = spec_i + 1
  /\ UNCHANGED << betaVars, extVars, parseVars, lagVars, expandVars, meta_map, keepVars, policyVars,
                  target_factor_codes, full_refresh, specs >>

NextLoader == ProcessFactor(LevelSeries)

SpecLoader == InitLoader /\ [][NextLoader]_vars

\* ---------------------------------- factor_returns_loader.py: arguments
\* build_factor_specs without the NASDAQ key: the two FRED entries and one
\* sector entry; F_COMM_GOLD is no entry of it
build_factor_specs ==
  LoaderSpecs \o
  << [factor_code |-> "F_SECTOR_US_TECH", source |-> "YFINANCE", frequency |-> "D",
      ret_type |-> "log_return", duration_years |-> 0] >>

SpecCodes(sp) == {sp[i].factor_code : i \in 1..Len(sp)}

\* --factor-codes, split and stripped
TargetLists ==
  { <<>>, <<"F_SECTOR_US_TECH">>, <<"F_SECTOR_US_TECH", "F_COMM_GOLD">>,
    <<"F_COMM_GOLD">>, <<"F_RATE_US10Y", "F_SECTOR_US_TECH">> }

\* factor_metadata before the run: the sector factor has no lag policy, a
\* blank one or an explicit one
StoredLagPolicies == {"None", " ", "2"}
ArgsMetaTables ==
  {[code \in SpecCodes(build_factor_specs) |->
      [ret_type |-> "None", source |-> "None",
       lag_policy |-> IF code = "F_SECTOR_US_TECH" THEN lp ELSE "None"]] :
     lp \in StoredLagPolicies}

\* factor_returns before the run
ArgsPriorReturns ==
  { {},
    {StoredRow("F_SECTOR_US_TECH", 1)},
    {StoredRow("F_SECTOR_US_TECH", MaxDate), StoredRow("F_COMM_GOLD", MaxDate)} }

\* what a source answers in these runs: one day, or every day
ArgsLevels == {l \in LevelSeries : Len(l) \in {1, MaxDate} /\ l[1].date = 1 /\ l[1].v = 1}

\* supabase_delete_factor_returns
supabase_delete_factor_returns(table, codes) ==
  {r \in table : r.factor_code \notin Range(codes)}

InitLoaderArgs ==
  /\ BetaInit
  /\ ExtIdle
  /\ PolicyIdle
  /\ KeepIdle
  /\ ParseIdle
  /\ LagsIdle
  /\ ExpandIdle
  /\ spec_i = 0
  /\ target_factor_codes \in TargetLists
  /\ full_refresh \in BOOLEAN
  /\ specs = <<>>
  /\ factor_metadata \in ArgsMetaTables
  /\ meta_map = <<>>
  /\ factor_returns \in ArgsPriorReturns
  /\ level = <<>>
  /\ loader_log = <<>>

\* main up to the loop: the specs are cut to the target codes, the metadata
\* is read, and with --full-refresh the rows of the target codes are deleted
StartLoader ==
  /\ spec_i = 0
  /\ LET matched == SelectSeq(build_factor_specs,
                              LAMBDA sp : sp.factor_code \in Range(target_factor_codes))
         return(tag) == /\ loader_log' = Append(loader_log, <<"", tag>>)
                        /\ specs' = <<>>
                        /\ UNCHANGED << meta_map, factor_returns >>
     IN IF target_factor_codes # <<>> /\ matched = <<>>
        THEN return("WARN no matching factor_codes in specs")
        ELSE IF target_factor_codes = <<>> /\ full_refresh
        THEN return("WARN --full-refresh requires --factor-codes")
        ELSE /\ specs' = IF target_factor_codes # <<>> THEN matched ELSE build_factor_specs
             /\ meta_map' = fetch_factor_metadata_map(factor_metadata)
             /\ IF full_refresh /\ target_factor_codes # <<>>
                THEN /\ factor_returns' =
                          supabase_delete_factor_returns(factor_returns, target_factor_codes)
                     /\ loader_log' = Append(loader_log, <<"", "INFO deleted">>)
                ELSE UNCHANGED << factor_returns, loader_log >>
  /\ spec_i' = 1
  /\ UNCHANGED << betaVars, extVars, parseVars, lagVars, expandVars, keepVars, policyVars,
                  target_factor_codes, full_refresh, factor_metadata, level >>

NextLoaderArgs == StartLoader \/ ProcessFactor(ArgsLevels)

SpecLoaderArgs == InitLoaderArgs /\ [][NextLoaderArgs]_vars

\* ------------------------------------ duplicate dates: fetch and pivot
\* longest list of observations or of frame rows drawn
MaxObs == 3

\* what a source sends: observations in any order, dates may repeat, a
\* value may be the missing marker "." (ok = FALSE)
ObsValues == {1, 2}
Observations ==
  UNION {[1..n -> [date : Dates, value : ObsValues, ok : BOOLEAN]] : n \in 0..MaxObs}

\* mutant: the first value received for the date
LastValue_first(rows, d) ==
  rows[CHOOSE i \in 1..Len(rows) :
         rows[i].date = d /\ \A j \in 1..(i - 1) : rows[j].date # d].value

\* {d: v for d, v in rows}[d]: a later pair replaces an earlier one
LastValue(rows, d) ==
  rows[CHOOSE i \in 1..Len(rows) :
         rows[i].date = d /\ \A j \in (i + 1)..Len(rows) : rows[j].date # d].value

\* fred_fetch_series (ecos_fetch_series builds its series the same way):
\* skip the observations without a value, build the dict, sort_index
fred_fetch_series(o) ==
  LET rows == SelectSeq(o, LAMBDA r : r.ok)
      ds   == SortSet({rows[i].date : i \in 1..Len(rows)})
  IN [i \in 1..Len(ds) |-> [date |-> ds[i], value |-> LastValue(rows, ds[i])]]

\* frames apply_factor_lags can return when rows repeat a (date, factor)
\* pair: sorted by factor_code and record_date, equal pairs in source order
PivotDates == {1, MaxDate}
SortedFrames ==
  {f \in UNION {[1..n -> [factor_code : Range(LagFactors), record_date : PivotDates,
                          aligned_ret : ObsValues]] : n \in 0..MaxObs} :
     \A i \in 1..(Len(f) - 1) : ~RowBefore(f[i + 1], f[i])}

\* pivot_table(index="record_date", columns="factor_code",
\* values="aligned_ret", aggfunc="last").sort_index(): per factor, the dates
\* that have a row, each with the aligned_ret of the last such row
PivotLast(f) ==
  [fc \in {f[i].factor_code : i \in 1..Len(f)} |->
     [d \in {f[i].record_date : i \in {h \in 1..Len(f) : f[h].factor_code = fc}} |->
        f[CHOOSE i \in 1..Len(f) :
            /\ f[i].factor_code = fc /\ f[i].record_date = d
            /\ \A j \in (i + 1)..Len(f) :
                 ~(f[j].factor_code = fc /\ f[j].record_date = d)].aligned_ret]]

InitKeep ==
  /\ BetaInit
  /\ ExtIdle
  /\ PolicyIdle
  /\ ParseIdle
  /\ ExpandIdle
  /\ LoaderIdle
  /\ fred_series = <<>>
  /\ pivoted = <<>>
  /\ fdf = <<>>
  /\ \/ npc = "fetch" /\ obs \in Observations /\ apc = "idle" /\ aligned = <<>>
     \/ npc = "pivot" /\ obs = <<>> /\ apc = "returned" /\ aligned \in SortedFrames

FetchSeries ==
  /\ npc = "fetch"
  /\ fred_series' = fred_fetch_series(obs)
  /\ npc' = "fetched"
  /\ UNCHANGED << betaVars, extVars, parseVars, lagVars, expandVars, loaderVars, policyVars,
                  obs, pivoted >>

\* the pivot of main, on the frame apply_factor_lags returned
PivotFactors ==
  /\ npc = "pivot"
  /\ pivoted' = IF aligned = <<>> THEN <<>> ELSE PivotLast(aligned)
  /\ npc' = "pivoted"
  /\ UNCHANGED << betaVars, extVars, parseVars, lagVars, expandVars, loaderVars, policyVars,
                  obs, fred_series >>

NextKeep == FetchSeries \/ PivotFactors

SpecKeep == InitKeep /\ [][NextKeep]_vars

\* ------------------------------------------- update_factor_lag_policy.py
\* the sweep and the overlap threshold, scaled down from -3..3 and 60
DEFAULT_LAG_MIN == 0 - 1
DEFAULT_LAG_MAX == 1
DEFAULT_MIN_NOBS == 2

\* lags = list(range(lag_min, lag_max + 1)), min_nobs = args.min_nobs
lags == [i \in 1..(DEFAULT_LAG_MAX - DEFAULT_LAG_MIN + 1) |-> DEFAULT_LAG_MIN + i - 1]
min_nobs == DEFAULT_MIN_NOBS

\* a float: finite with a magnitude, or not finite (nan, inf)
NotFinite == [fin |-> FALSE, v |-> 0]
Finite(n) == [fin |-> TRUE, v |-> n]

\* what ols_beta_r2 can return for a sample: beta and R2
OlsBetas == {NotFinite, Finite(0 - 2), Finite(1)}
OlsR2s == {NotFinite, Finite(1), Finite(2)}
OlsOutcomes == [beta : OlsBetas, r2 : OlsR2s]

\* the lag policy before the run: a lag outside the sweep
StoredPolicy == <<"2">>

\* str() of a natural number: its decimal digits, no leading zero
RECURSIVE StrOfNat(_)
StrOfNat(n) ==
  LET digit(m) == CHOOSE c \in Digits : DigitValue(c) = m
  IN IF n < 10 THEN <<digit(n)>> ELSE StrOfNat(n \div 10) \o <<digit(n % 10)>>

\* mutant: the text of the magnitude, without the sign
StrOfLag_abs(n) == StrOfNat(IF n < 0 THEN 0 - n ELSE n)

\* str(lag)
StrOfLag(n) == IF n < 0 THEN <<"-">> \o StrOfNat(0 - n) ELSE StrOfNat(n)

\* fetch_factor_returns: the stored dates of the factor, ascending
FactorIndexes == {SortSet(S) : S \in SUBSET Dates}

\* fetch_ticker_returns_pykrx(stock_code, start_date, end_date): the trading
\* days of the window that have a return
TickerCalendars == {Dates, Dates \ {1}, {MaxDate}}
TradingDays(cal, fr) == {d \in cal : fr[1] <= d /\ d <= fr[Len(fr)]}

\* len(pd.concat([factor_ret.shift(lag), ticker_ret], axis=1).dropna()):
\* shift moves the value of position i to position i + lag of the same index
JoinedOverlap(fr, tr, lg) ==
  Cardinality({i \in 1..Len(fr) : (i - lg) \in 1..Len(fr) /\ fr[i] \in tr})

Abs(n) == IF n < 0 THEN 0 - n ELSE n

\* mutant: the tie on R2 is broken by beta, not by its magnitude
KeyLeq_signed(a, b) ==
  \/ a.r2 < b.r2
  \/ a.r2 = b.r2 /\ a.beta <= b.beta

\* (r["r2"], abs(r["beta"])) of a <= that of b, as tuples
KeyLeq(a, b) ==
  \/ a.r2 < b.r2
  \/ a.r2 = b.r2 /\ Abs(a.beta) <= Abs(b.beta)

\* sorted(results, key=..., reverse=True)[0]: the sort is stable, the
\* first of the results with the largest key
SortedFirst(rs) ==
  rs[CHOOSE i \in 1..Len(rs) :
       /\ \A j \in 1..Len(rs) : KeyLeq(rs[j], rs[i])
       /\ \A j \in 1..(i - 1) : ~KeyLeq(rs[i], rs[j])]

InitPolicy ==
  /\ BetaInit
  /\ ExtIdle
  /\ ParseIdle
  /\ LagsIdle
  /\ ExpandIdle
  /\ LoaderIdle
  /\ KeepIdle
  /\ upc = "row"
  /\ frequency \in {"D", "M"}
  /\ dry_run \in BOOLEAN
  /\ factor_ret \in FactorIndexes
  /\ ticker_ret = {}
  /\ lag_ix = 1
  /\ sweep_log = <<>>
  /\ results = <<>>
  /\ best = <<>>
  /\ lag_policy = StoredPolicy

\* main, one row of meta up to the call of compute_best_lag
StartFactor(cals) ==
  /\ upc = "row"
  /\ \E cal \in cals :
       IF frequency = "M" \/ factor_ret = <<>>
       THEN upc' = "done" /\ UNCHANGED ticker_ret
       ELSE /\ ticker_ret' = TradingDays(cal, factor_ret)
            /\ upc' = IF ticker_ret' = {} THEN "done" ELSE "sweep"
  /\ UNCHANGED << betaVars, extVars, parseVars, lagVars, expandVars, loaderVars, keepVars,
                  frequency, dry_run, factor_ret, lag_ix, sweep_log, results,
                  best, lag_policy >>

\* compute_best_lag, one lag of the loop
SweepLag(fits) ==
  /\ upc = "sweep"
  /\ lag_ix <= Len(lags)
  /\ LET lg    == lags[lag_ix]
         n_obs == JoinedOverlap(factor_ret, ticker_ret, lg)
     IN IF n_obs < min_nobs
        THEN /\ sweep_log' = Append(sweep_log,
                               [lag |-> lg, beta |-> NotFinite, r2 |-> NotFinite])
             /\ UNCHANGED results
        ELSE \E o \in fits :
               /\ sweep_log' = Append(sweep_log,
                                 [lag |-> lg, beta |-> o.beta, r2 |-> o.r2])
               /\ results' = IF ~o.beta.fin \/ ~o.r2.fin
                             THEN results
                             ELSE Append(results, [lag |-> lg, beta |-> o.beta.v,
                                                   r2 |-> o.r2.v, n_obs |-> n_obs])
  /\ lag_ix' = lag_ix + 1
  /\ UNCHANGED << betaVars, extVars, parseVars, lagVars, expandVars, loaderVars, keepVars,
                  upc, frequency, dry_run, factor_ret, ticker_ret, best, lag_policy >>

\* update_lag_policy
update_lag_policy(lg) == StrOfLag(lg)

\* the return of compute_best_lag and the rest of main's row
UpdateFactor ==
  /\ upc = "sweep"
  /\ lag_ix > Len(lags)
  /\ best' = IF results = <<>> THEN <<>> ELSE <<SortedFirst(results)>>
  /\ lag_policy' = IF best' = <<>> \/ dry_run
                   THEN lag_policy
                   ELSE update_lag_policy(best'[1].lag)
  /\ upc' = "done"
  /\ UNCHANGED << betaVars, extVars, parseVars, lagVars, expandVars, loaderVars, keepVars,
                  frequency, dry_run, factor_ret, ticker_ret, lag_ix, sweep_log,
                  results >>

NextPolicy == StartFactor(TickerCalendars) \/ SweepLag(OlsOutcomes) \/ UpdateFactor

SpecPolicy == InitPolicy /\ [][NextPolicy]_vars

\* ------------------------------------------------- collaborator calls
\* sb_select_all of update_factor_lag_policy.py: max_pages scaled from 500
max_pages == 3
max_retries == 3

Callees == {"update_factor_lag_policy.sb_select_all",
            "ticker_factor_beta_loader.sb_select_all",
            "fetch_price_returns_yf"}

\* what the store answers to a page request: it raises, or returns a full
\* page, a page with fewer rows than page_size, or no row
PageAnswers == {"raise", "full", "partial", "empty"}

InitCollab ==
  /\ BetaInit
  /\ HelpersIdle
  /\ TokenIdle
  /\ BalanceIdle
  /\ callee \in Callees
  /\ cpc = "call"
  /\ page = 0
  /\ attempt = 1
  /\ call_log = <<>>

\* how a select goes on after a page was received
AfterPage(ans) ==
  IF ans \in {"partial", "empty"} \/ page + 1 >= max_pages
  THEN cpc' = "returned rows" /\ page' = page
  ELSE cpc' = "call" /\ page' = page + 1

\* except Exception: if attempt >= max_retries: raise; else sleep and retry
AfterFailure ==
  IF attempt >= max_retries
  THEN cpc' = "raised" /\ UNCHANGED << page, attempt >>
  ELSE cpc' = "call" /\ attempt' = attempt + 1 /\ UNCHANGED page

\* sb_select_all of update_factor_lag_policy.py, one request
SelectWithRetry(answers) ==
  /\ callee = "update_factor_lag_policy.sb_select_all"
  /\ cpc = "call"
  /\ \E ans \in answers :
       /\ call_log' = Append(call_log, ans)
       /\ IF ans = "raise"
          THEN AfterFailure
          ELSE AfterPage(ans) /\ attempt' = 1
  /\ UNCHANGED << betaVars, helperVars, tokenVars, balanceVars, callee >>

\* sb_select_all of ticker_factor_beta_loader.py, one request: execute() is
\* in no try block
SelectPlain(answers) ==
  /\ callee = "ticker_factor_beta_loader.sb_select_all"
  /\ cpc = "call"
  /\ \E ans \in answers :
       /\ call_log' = Append(call_log, ans)
       /\ IF ans = "raise"
          THEN cpc' = "raised" /\ UNCHANGED page
          ELSE AfterPage(ans)
  /\ UNCHANGED << betaVars, helperVars, tokenVars, balanceVars, callee, attempt >>

\* fetch_price_returns_yf: one download; an exception, an empty frame or a
\* short series gives None
FetchPrice ==
  /\ callee = "fetch_price_returns_yf"
  /\ cpc = "call"
  /\ \E ans \in {"raise", "empty", "short", "prices"} :
       /\ call_log' = Append(call_log, ans)
       /\ cpc' = IF ans = "prices" THEN "returned series" ELSE "returned None"
  /\ UNCHANGED << betaVars, helperVars, tokenVars, balanceVars, callee, page, attempt >>

NextCollab == SelectWithRetry(PageAnswers) \/ SelectPlain(PageAnswers) \/ FetchPrice

SpecCollab == InitCollab /\ [][NextCollab]_vars

\* ------------------------------------------- get_token.py: refresh_tokens
\* most entries of kis_auth.json drawn
MaxEntries == 2

\* a value that `not v' is true of: a missing key, null or the empty text
Truthy(v) == v \notin {"None", ""}

\* the token an entry holds and the text of its issue time: none, a token
\* of today issued less than 23 hours ago (two of them), a token of
\* another day or older than 23 hours, a time fromisoformat rejects, and a
\* token without a time
StoredTokens ==
  { <<"None", "None">>, <<"t1", "today 09:00">>, <<"t2", "today 10:00">>,
    <<"t1", "yesterday">>, <<"t1", "not a date">>, <<"t1", "None">> }

AuthEntries ==
  { [app_key |-> kk, app_secret |-> sec, token |-> tk[1], token_issued_at |-> tk[2],
     api_expired_info |-> "None"] :
      kk \in {"None", "k1", "k2"}, sec \in {"None", "s"}, tk \in StoredTokens }

AuthFiles == UNION {[1..n -> AuthEntries] : n \in 0..MaxEntries}

\* now_kst.isoformat()
now_kst == "today 12:00"

\* datetime.fromisoformat raises ValueError
IsoRejected(text) == text = "not a date"

\* last_issued.date() != now_kst.date() or now_kst - last_issued > 23 hours
Expired(text) == text = "yesterday"

\* should_refresh for the first entry of a group
should_refresh(first_item) ==
  \/ ~ Truthy(first_item.token)
  \/ ~ Truthy(first_item.token_issued_at)
  \/ IsoRejected(first_item.token_issued_at)
  \/ Expired(first_item.token_issued_at)

\* what get_new_token returns: (None, None) when the request fails or the
\* answer has no access_token, else the token (which can be empty) and the
\* expiry text (which can be missing)
TokenAnswers ==
  { [token |-> "None", expired |-> "None"], [token |-> "", expired |-> "None"],
    [token |-> "new", expired |-> "None"], [token |-> "new", expired |-> "2099"] }

\* key_groups: the app_keys in the order of their first entry; entries
\* without app_key are left out
RECURSIVE KeyGroups(_)
KeyGroups(entries) ==
  IF entries = <<>> THEN <<>>
  ELSE LET before == KeyGroups(SubSeq(entries, 1, Len(entries) - 1))
           kk == entries[Len(entries)].app_key
       IN IF Truthy(kk) /\ kk \notin Range(before) THEN Append(before, kk) ELSE before

\* the positions of the entries of a group
GroupItems(entries, kk) == {i \in 1..Len(entries) : entries[i].app_key = kk}

\* items[0]
FirstItem(entries, kk) ==
  entries[CHOOSE i \in GroupItems(entries, kk) : \A j \in GroupItems(entries, kk) : i <= j]

\* the entry differs from new_token_data in token or token_issued_at
Differs(entry, new_token_data) ==
  \/ entry.token # new_token_data.token
  \/ entry.token_issued_at # new_token_data.token_issued_at

\* mutant: only the first entry of the group receives the token
SyncItems_first(entries, kk, new_token_data) ==
  [i \in 1..Len(entries) |->
     IF entries[i] = FirstItem(entries, kk) /\ Differs(entries[i], new_token_data)
     THEN [entries[i] EXCEPT !.token = new_token_data.token,
                             !.token_issued_at = new_token_data.token_issued_at]
     ELSE entries[i]]

\* step 3 of the loop: new_token_data is applied to every entry of the group
\* that differs from it
SyncItems(entries, kk, new_token_data) ==
  [i \in 1..Len(entries) |->
     IF i \in GroupItems(entries, kk) /\ Differs(entries[i], new_token_data)
     THEN [entries[i] EXCEPT !.token = new_token_data.token,
                             !.token_issued_at = new_token_data.token_issued_at,
                             !.api_expired_info =
                                IF Truthy(new_token_data.api_expired_info)
                                THEN new_token_data.api_expired_info ELSE @]
     ELSE entries[i]]

InitToken ==
  /\ BetaInit
  /\ HelpersIdle
  /\ CollabIdle
  /\ BalanceIdle
  /\ tpc = "load"
  /\ auth_file \in AuthFiles
  /\ auth_data = <<>>
  /\ key_groups = <<>>
  /\ group_i = 1
  /\ updated = FALSE
  /\ group_log = <<>>
  /\ file_writes = 0

\* data = load_auth_data(); the return on an empty file; the grouping
LoadAuth ==
  /\ tpc = "load"
  /\ auth_data' = auth_file
  /\ IF auth_file = <<>>
     THEN tpc' = "done" /\ key_groups' = <<>>
     ELSE tpc' = "groups" /\ key_groups' = KeyGroups(auth_file)
  /\ UNCHANGED << betaVars, helperVars, collabVars, balanceVars,
                  auth_file, group_i, updated, group_log, file_writes >>

\* one iteration of `for app_key, items in key_groups.items()'
RefreshGroup(answers) ==
  /\ tpc = "groups"
  /\ group_i <= Len(key_groups)
  /\ LET app_key == key_groups[group_i]
         first_item == FirstItem(auth_data, app_key)
         kept == [token |-> first_item.token,
                  token_issued_at |-> first_item.token_issued_at,
                  api_expired_info |-> first_item.api_expired_info]
         logged(how) == group_log' = Append(group_log,
                          [app_key |-> app_key, first_item |-> first_item, how |-> how])
     IN IF ~ Truthy(first_item.app_secret)
        THEN /\ logged("no secret")
             /\ UNCHANGED << auth_data, updated >>
        ELSE IF should_refresh(first_item)
        THEN \E ans \in answers :
               IF Truthy(ans.token)
               THEN /\ logged("issued")
                    /\ auth_data' = SyncItems(auth_data, app_key,
                           [token |-> ans.token, token_issued_at |-> now_kst,
                            api_expired_info |-> ans.expired])
                    /\ updated' = TRUE
               ELSE /\ logged("failed")
                    /\ UNCHANGED << auth_data, updated >>
        ELSE /\ logged("valid")
             /\ auth_data' = SyncItems(auth_data, app_key, kept)
             /\ updated' = (updated \/ auth_data' # auth_data)
  /\ group_i' = group_i + 1
  /\ UNCHANGED << betaVars, helperVars, collabVars, balanceVars,
                  tpc, auth_file, key_groups, file_writes >>

\* if updated: save_auth_data(data)
SaveAuth ==
  /\ tpc = "groups"
  /\ group_i > Len(key_groups)
  /\ IF updated
     THEN auth_file' = auth_data /\ file_writes' = file_writes + 1
     ELSE UNCHANGED << auth_file, file_writes >>
  /\ tpc' = "done"
  /\ UNCHANGED << betaVars, helperVars, collabVars, balanceVars,
                  auth_data, key_groups, group_i, updated, group_log >>

NextToken == LoadAuth \/ RefreshGroup(TokenAnswers) \/ SaveAuth

SpecToken == InitToken /\ [][NextToken]_vars

\* ------------------------- main.py, main_local.py: the balance queries
\* scaled from 20
MAX_PAGES == 3

Fetchers == {"main.fetch_balance_stock", "main.fetch_balance_irp",
             "main_local.fetch_balance_stock", "main_local.fetch_balance_irp"}

\* requests.get and res.json() are in a try block that returns None
CatchesRequestErrors(f) ==
  f \in {"main_local.fetch_balance_stock", "main_local.fetch_balance_irp"}

\* cash_amt = 0 before the loop; fetch_balance_irp of main_local.py has no
\* such line
CashBeforeLoop(f) == IF f = "main_local.fetch_balance_irp" THEN <<>> ELSE <<0>>

\* what a request gives: an exception of requests.get or a body that is
\* not JSON; JSON without rt_cd; rt_cd other than '0'; or a page, with
\* output2 (empty, with amounts, or with a cash amount int() rejects),
\* output1 (empty or rows), the header tr_cont and the key ctx_area_nk100
BalanceResponses ==
  { [kind |-> kd, output2 |-> "empty", output1 |-> "empty", tr_cont |-> "N", nk |-> ""] :
      kd \in {"raise", "no rt_cd", "error"} }
  \cup [ kind : {"page"}, output2 : {"empty", "amounts", "bad cash"},
         output1 : {"empty", "rows"}, tr_cont : {"N", "M"}, nk : {"", "key"} ]

\* tot_amt after `if tot_amt == 0 and data['output2']'
TotAfter(tot, r) == IF tot = 0 /\ r.output2 # "empty" THEN 1 ELSE tot

\* cash_amt after the same block: the stock queries assign it from the
\* cash field or, when int() raises, from the totals; fetch_balance_irp of
\* main.py does not assign it there; that of main_local.py assigns it
\* unless int() raises
CashAfter(f, tot, cash, r) ==
  IF tot = 0 /\ r.output2 # "empty"
  THEN IF f \in {"main.fetch_balance_stock", "main_local.fetch_balance_stock"}
       THEN <<1>>
       ELSE IF f = "main_local.fetch_balance_irp" /\ r.output2 = "amounts"
       THEN <<1>>
       ELSE cash
  ELSE cash

\* mutant: the page limit is not part of the condition
Continues_unbounded(f, r, n) ==
  IF CatchesRequestErrors(f) THEN r.nk # "" ELSE (r.tr_cont \in {"D", "M"} \/ r.nk # "")

\* the pagination check that ends an iteration with rows
Continues(f, r, n) ==
  IF CatchesRequestErrors(f)
  THEN r.nk # "" /\ n < MAX_PAGES
  ELSE (r.tr_cont \in {"D", "M"} \/ r.nk # "") /\ n < MAX_PAGES

\* the code after the loop: fetch_balance_irp of main_local.py reads
\* cash_amt, which raises UnboundLocalError when it was never assigned
AfterLoop(f, cash) ==
  IF f = "main_local.fetch_balance_irp" /\ cash = <<>> THEN "raised" ELSE "returned result"

InitBalance ==
  /\ BetaInit
  /\ HelpersIdle
  /\ CollabIdle
  /\ TokenIdle
  /\ fetcher \in Fetchers
  /\ bpc = "call"
  /\ page_count = 0
  /\ tot_amt = 0
  /\ cash_amt = CashBeforeLoop(fetcher)
  /\ ctx_area_nk100 = ""
  /\ response_log = <<>>

\* one iteration of `while True': a request and what follows it
FetchPage(responses) ==
  /\ bpc = "call"
  /\ page_count' = page_count + 1
  /\ \E r \in responses :
       /\ response_log' = Append(response_log, r)
       /\ IF r.kind = "raise"
          THEN /\ bpc' = IF CatchesRequestErrors(fetcher) THEN "returned None" ELSE "raised"
               /\ UNCHANGED << tot_amt, cash_amt, ctx_area_nk100 >>
          ELSE IF r.kind = "no rt_cd"
          THEN /\ bpc' = "raised"
               /\ UNCHANGED << tot_amt, cash_amt, ctx_area_nk100 >>
          ELSE IF r.kind = "error"
          THEN /\ bpc' = "returned None"
               /\ UNCHANGED << tot_amt, cash_amt, ctx_area_nk100 >>
          ELSE /\ tot_amt' = TotAfter(tot_amt, r)
               /\ cash_amt' = CashAfter(fetcher, tot_amt, cash_amt, r)
               /\ IF r.output1 = "empty"
                  THEN /\ bpc' = AfterLoop(fetcher, cash_amt')
                       /\ UNCHANGED ctx_area_nk100
                  ELSE /\ ctx_area_nk100' = r.nk
                       /\ bpc' = IF Continues(fetcher, r, page_count')
                                 THEN "call"
                                 ELSE AfterLoop(fetcher, cash_amt')
  /\ UNCHANGED << betaVars, helperVars, collabVars, tokenVars, fetcher >>

NextBalance == FetchPage(BalanceResponses)

SpecBalance == InitBalance /\ [][NextBalance]_vars

\* ================================================================ claims
\* dates on which the security return and the factor value are both present
BothPresent(rt, fw, fc) == (DOMAIN rt) \cap fw[fc]

\* factors whose count of such dates reaches the threshold
EligibleSet(rt, fw) ==
  {fc \in Range(factor_codes) : Cardinality(BothPresent(rt, fw, fc)) >= MIN_NOBS}

\* the WINDOW_DAYS latest dates of a set (all of them when there are fewer)
LatestDates(S) == {d \in S : Cardinality({e \in S : e > d}) < WINDOW_DAYS}

MaxOf(S) == CHOOSE d \in S : \A e \in S : e <= d

\* positions in upsert_rows of the single-factor rows of the security
\* being processed; the j-th of them belongs to single_ok_factors[j]
CurrentSingleBase == Len(upsert_rows) - Len(single_ok_factors)

\* C1: once the overlap loop has run for a security, a factor of the joined
\* table is in ok_factors if and only if the number of dates on which both
\* the security return and the factor are present is >= MIN_NOBS, and the
\* overlap recorded for it is that number.
C1_EligibleIffOverlap ==
  pc = "multi" =>
    \A fc \in Range(AvailableFactors(fwide)) :
      /\ overlap_map[fc] = Cardinality(BothPresent(ret_t, fwide, fc))
      /\ (fc \in Range(ok_factors)) <=>
           (Cardinality(BothPresent(ret_t, fwide, fc)) >= MIN_NOBS)

\* C1 witness: one factor sits exactly on the threshold and is included,
\* another sits one below and is excluded.
C1_Witness ==
  /\ pc = "multi"
  /\ \E f, g \in Range(AvailableFactors(fwide)) :
       /\ Cardinality(BothPresent(ret_t, fwide, f)) = MIN_NOBS
       /\ f \in Range(ok_factors)
       /\ Cardinality(BothPresent(ret_t, fwide, g)) = MIN_NOBS - 1
       /\ g \notin Range(ok_factors)

\* C2: after the single pass of a security, the factors it fitted (OK or
\* FAIL) are exactly the eligible factors and the factors it marked THIN
\* are exactly the available factors that are not eligible.
C2_SingleAttemptsEligible ==
  pc = "multi" =>
    /\ Range(single_ok_factors) \cup Range(single_failed_factors)
         = EligibleSet(ret_t, fwide)
    /\ Range(single_skipped_factors)
         = Range(AvailableFactors(fwide)) \ EligibleSet(ret_t, fwide)
    /\ \A i \in 1..Len(single_status_parts) :
         (single_status_parts[i][2] = "THIN")
           <=> (single_status_parts[i][1] \notin EligibleSet(ret_t, fwide))

\* C2 witness: a fitted factor whose overlap exceeds the window (the single
\* pass saw fewer rows than the overlap) next to a THIN factor.
C2_Witness ==
  /\ pc = "multi"
  /\ \E f \in Range(single_ok_factors) \cup Range(single_failed_factors) :
       Cardinality(BothPresent(ret_t, fwide, f)) > WINDOW_DAYS
  /\ single_skipped_factors # <<>>

\* the dates the multi-factor sample should hold: security return and every
\* eligible factor present, cut to the trailing window
ClaimedMultiDates(rt, fw) ==
  LatestDates({d \in DOMAIN rt : \A fc \in EligibleSet(rt, fw) : d \in fw[fc]})

\* C3: when a security has eligible factors, the multi-factor sample is
\* exactly the trailing window of the dates on which the security return
\* and every eligible factor are present, and the n_obs of the report row
\* and the n_obs and asof_date of the multi rows are those of that sample.
C3_MultiSampleIsEligibleIntersection ==
  [][ (pc = "multi" /\ ok_factors # <<>>) =>
        LET want == ClaimedMultiDates(ret_t, fwide)
        IN /\ Range(MultiSample(ret_t, fwide, ok_factors)) = want
           /\ report_rows'[Len(report_rows')].n_obs = Cardinality(want)
           /\ \A i \in (Len(upsert_rows) + 1)..Len(upsert_rows') :
                /\ upsert_rows'[i].method = METHOD_MULTI
                /\ upsert_rows'[i].n_obs = Cardinality(want)
                /\ upsert_rows'[i].asof_date = MaxOf(want) ]_vars

\* C3 witness: a sample that is regressed, holding a date on which an
\* ineligible factor is missing, while a joined date on which an eligible
\* factor is missing is left out.
C3_Witness ==
  /\ pc = "multi"
  /\ ok_factors # <<>>
  /\ ~MultiThin(Len(MultiSample(ret_t, fwide, ok_factors)))
  /\ \E g \in Range(AvailableFactors(fwide)) \ Range(ok_factors) :
       \E d \in Range(MultiSample(ret_t, fwide, ok_factors)) : d \notin fwide[g]
  /\ \E f \in Range(ok_factors) :
       \E d \in JoinIndex(ret_t, fwide) :
         d \notin fwide[f] /\ d \notin Range(MultiSample(ret_t, fwide, ok_factors))

IsPrefix(a, b) == Len(a) <= Len(b) /\ SubSeq(b, 1, Len(a)) = a

\* C4: when the joint sample over the eligible factors has fewer than
\* MIN_NOBS rows, the step emits no multi-factor row and appends a report
\* row that records the thin case with its row count; no step ever removes
\* a row from upsert_rows, and once the upsert has gone through every row
\* of upsert_rows (the security's single-factor rows included) is stored.
C4_ThinMultiKeepsSingles ==
  [][ /\ (pc = "multi" /\ ok_factors # <<>>
            /\ Cardinality(ClaimedMultiDates(ret_t, fwide)) < MIN_NOBS) =>
          /\ upsert_rows' = upsert_rows
          /\ Len(report_rows') = Len(report_rows) + 1
          /\ LET row == report_rows'[Len(report_rows')]
             IN /\ row.status = "SKIP"
                /\ row.reason.tag = "thin"
                /\ row.reason.n_obs = Cardinality(ClaimedMultiDates(ret_t, fwide))
                /\ row.n_obs = Cardinality(ClaimedMultiDates(ret_t, fwide))
                /\ row.single_ok_factors = single_ok_factors
      /\ IsPrefix(upsert_rows, upsert_rows')
      /\ (pc' = "done" => \A i \in 1..Len(upsert_rows') : upsert_rows'[i] \in store')
    ]_vars

\* C4 witness: a finished run whose security was thin in the multi pass and
\* whose single-factor rows are stored.
C4_Witness ==
  /\ pc = "done"
  /\ \E i \in 1..Len(report_rows) :
       /\ report_rows[i].reason.tag = "thin"
       /\ report_rows[i].single_ok_factors # <<>>
       /\ \A fc \in Range(report_rows[i].single_ok_factors) :
            \E r \in store : /\ r.stock_code = report_rows[i].stock_code
                             /\ r.factor_code = fc
                             /\ r.method = METHOD_SINGLE
       /\ ~ \E r \in store : /\ r.stock_code = report_rows[i].stock_code
                             /\ r.method = METHOD_MULTI

\* the factor matrix with one more factor, present on the dates G
WithFactor(fw, G) ==
  [f \in (DOMAIN fw) \cup {EXTRA_FACTOR} |-> IF f = EXTRA_FACTOR THEN G ELSE fw[f]]

\* C5: for the security being processed and any dates G of an added factor,
\* the single-factor sample of every factor (hence its n_obs and as-of
\* date) is the one the run used without the added factor, and every
\* factor that is eligible without it is eligible with it.
C5_OverlapMonotonicity ==
  pc = "multi" =>
    \A G \in SUBSET Dates :
      LET fw2 == WithFactor(fwide, G)
      IN /\ \A i \in 1..Len(single_n_obs_parts) :
              single_n_obs_parts[i][2]
                = Len(SingleSample(ret_t, fw2, single_n_obs_parts[i][1]))
         /\ \A j \in 1..Len(single_ok_factors) :
              LET r == upsert_rows[CurrentSingleBase + j]
                  sample == SingleSample(ret_t, fw2, single_ok_factors[j])
              IN /\ r.factor_code = single_ok_factors[j]
                 /\ r.n_obs = Len(sample)
                 /\ r.asof_date = MaxOf(Range(sample))
         /\ Range(ok_factors) \subseteq Range(OkFactors(ret_t, fw2))

\* C5 witness: a security with a single-factor result and a return date
\* that no factor of the matrix covers, so that an added factor can widen
\* the join.
C5_Witness ==
  /\ pc = "multi"
  /\ single_ok_factors # <<>>
  /\ ok_factors # <<>>
  /\ (DOMAIN ret_t) \ FwideIndex(fwide) # {}

\* C6: every estimate row has MIN_NOBS <= n_obs <= WINDOW_DAYS; the sample
\* of each single-factor regression and of the multi-factor regression is
\* the set of the WINDOW_DAYS latest complete-case dates, and the n_obs of
\* the security's single rows is the size of that set.
C6_WindowBounds ==
  /\ \A i \in 1..Len(upsert_rows) :
       MIN_NOBS <= upsert_rows[i].n_obs /\ upsert_rows[i].n_obs <= WINDOW_DAYS
  /\ pc \in {"single", "multi"} =>
       /\ \A fc \in Range(AvailableFactors(fwide)) :
            Range(SingleSample(ret_t, fwide, fc))
              = LatestDates(BothPresent(ret_t, fwide, fc))
       /\ Range(MultiSample(ret_t, fwide, OkFactors(ret_t, fwide)))
            = LatestDates({d \in JoinIndex(ret_t, fwide) :
                             \A fc \in EligibleSet(ret_t, fwide) : d \in fwide[fc]})
       /\ \A j \in 1..Len(single_ok_factors) :
            upsert_rows[CurrentSingleBase + j].n_obs
              = Cardinality(LatestDates(BothPresent(ret_t, fwide, single_ok_factors[j])))

\* C6 witness: a single-factor row of exactly WINDOW_DAYS observations for
\* a factor whose complete cases are more than WINDOW_DAYS.
C6_Witness ==
  /\ pc = "multi"
  /\ \E j \in 1..Len(single_ok_factors) :
       /\ Cardinality(BothPresent(ret_t, fwide, single_ok_factors[j])) > WINDOW_DAYS
       /\ upsert_rows[CurrentSingleBase + j].n_obs = WINDOW_DAYS

\* C7: the asof_date of every row a step emits is the latest date of the
\* truncated sample of the regression that produced it, and the report
\* row's as-of date is that of the multi-factor sample.
C7_AsofIsSampleMax ==
  [][ \A i \in (Len(upsert_rows) + 1)..Len(upsert_rows') :
        LET r == upsert_rows'[i]
            sample == IF r.method = METHOD_SINGLE
                      THEN LatestDates(BothPresent(ret_t, fwide, r.factor_code))
                      ELSE ClaimedMultiDates(ret_t, fwide)
        IN /\ sample # {}
           /\ r.asof_date = MaxOf(sample)
           /\ r.method = METHOD_MULTI =>
                report_rows'[Len(report_rows')].asof_date = MaxOf(sample) ]_vars

\* C7 witness: one security with a single-factor row and a multi-factor row
\* that carry different as-of dates, both earlier than the run's end date.
C7_Witness ==
  \E i, j \in 1..Len(upsert_rows) :
    /\ upsert_rows[i].stock_code = upsert_rows[j].stock_code
    /\ upsert_rows[i].method = METHOD_SINGLE
    /\ upsert_rows[j].method = METHOD_MULTI
    /\ upsert_rows[i].asof_date # upsert_rows[j].asof_date
    /\ upsert_rows[i].asof_date < end
    /\ upsert_rows[j].asof_date < end

\* the security return takes one value on all the dates of S
ConstantOn(rt, S) == \A d, e \in S : rt[d] = rt[e]

\* C9: a step that emits estimate rows writes alpha, beta and r2 as null
\* exactly when the value ols_multi returned for that field is not finite,
\* each field on its own, and writes r2 as null whenever the security
\* return is constant over the regression sample; a single fit that
\* returns emits its row whatever the return series is.
C9_NullIffNonFinite ==
  [][ /\ \A i \in (Len(upsert_rows) + 1)..Len(upsert_rows') :
           LET r == upsert_rows'[i]
               nth == i - Len(upsert_rows)
               sample == IF r.method = METHOD_SINGLE
                         THEN LatestDates(BothPresent(ret_t, fwide, r.factor_code))
                         ELSE ClaimedMultiDates(ret_t, fwide)
           IN /\ (r.alpha = "null") <=> ~isfinite(fit'.alpha)
              /\ (r.beta = "null") <=> ~isfinite(fit'.beta[nth])
              /\ (r.r2 = "null") <=> ~isfinite(fit'.r2)
              /\ ConstantOn(ret_t, sample) => r.r2 = "null"
              /\ {r.alpha, r.beta, r.r2} \subseteq {"null", "finite"}
      /\ (pc = "single" /\ fit' # fit) => Len(upsert_rows') = Len(upsert_rows) + 1
    ]_vars

\* C9 witness: a security whose return never moves has a single-factor row
\* with a null r2 next to a non-null alpha and beta, and another row with
\* a null beta next to a non-null alpha.
C9_Witness ==
  /\ pc = "multi"
  /\ ConstantOn(ret_t, DOMAIN ret_t)
  /\ \E j \in 1..Len(single_ok_factors) :
       LET r == upsert_rows[CurrentSingleBase + j]
       IN r.r2 = "null" /\ r.alpha # "null" /\ r.beta # "null"
  /\ \E j \in 1..Len(single_ok_factors) :
       LET r == upsert_rows[CurrentSingleBase + j]
       IN r.beta = "null" /\ r.alpha # "null"

\* C10: the report always holds one row per security processed so far, in
\* universe order, each with status OK, SKIP or FAIL; once the loop has
\* gone through the universe it holds exactly one row per security, and
\* the report file of a finished run is that list.
C10_OneReportRowPerSecurity ==
  /\ Len(report_rows) = pos - 1
  /\ Len(report_rows) <= Len(tickers)
  /\ \A i \in 1..Len(report_rows) :
       /\ report_rows[i].stock_code = tickers[i].stock_code
       /\ report_rows[i].status \in {"OK", "SKIP", "FAIL"}
  /\ pc \in {"upsert", "done"} => Len(report_rows) = Len(tickers)
  /\ pc = "done" => report_csv = report_rows

\* C10 witness: a finished run over a full universe in which one security
\* was skipped as cash and another was regressed.
C10_Witness ==
  /\ pc = "done"
  /\ Len(tickers) = MaxTickers
  /\ Len(report_csv) = MaxTickers
  /\ \E i, j \in 1..Len(report_rows) :
       /\ report_rows[i].reason.tag = "cash"
       /\ report_rows[j].status = "OK"

\* what C8 asks of a raised exception x apart from keeping its text: the
\* failure is listed for its security and method, no estimate row exists
\* for it, and the loop went on
FailureContained(x) ==
  /\ x.method = METHOD_SINGLE =>
       /\ x.pos < pos => x.factor_code \in Range(report_rows[x.pos].single_failed_factors)
       /\ x.pos = pos => x.factor_code \in Range(single_failed_factors)
       /\ ~ \E i \in 1..Len(upsert_rows) :
              /\ upsert_rows[i].stock_code = x.stock_code
              /\ upsert_rows[i].factor_code = x.factor_code
              /\ upsert_rows[i].method = METHOD_SINGLE
  /\ x.method = METHOD_MULTI =>
       /\ x.pos < pos
       /\ report_rows[x.pos].status = "FAIL"
       /\ ~ \E i \in 1..Len(upsert_rows) :
              /\ upsert_rows[i].stock_code = x.stock_code
              /\ upsert_rows[i].method = METHOD_MULTI

\* the exception text of x is kept in the report data of its security
TextRecorded(x) ==
  IF x.method = METHOD_MULTI
  THEN /\ report_rows[x.pos].reason.tag = "ols_exception"
       /\ report_rows[x.pos].reason.text = x.text
  ELSE LET parts == IF x.pos < pos THEN report_rows[x.pos].single_status_map
                    ELSE single_status_parts
       IN \E n \in 1..Len(parts) :
            /\ parts[n][1] = x.factor_code
            /\ parts[n][2] = "FAIL"
            /\ x.text \in Range(parts[n])

\* C8: every exception the solver raised, in the single pass or in the
\* multi pass, is recorded as a FAIL outcome of its security and method
\* together with its text, has no estimate row, and never ends the run
\* (the run is only ever ended by an empty universe or a failed upsert).
C8_FailRecordedWithText ==
  /\ \A n \in 1..Len(exc_log) :
       FailureContained(exc_log[n]) /\ TextRecorded(exc_log[n])
  /\ pc = "raised" => (tickers = <<>> \/ pos > Len(tickers))

\* C8 without the text of single-pass failures: what the code does keep.
C8_FailureContainedOnly ==
  /\ \A n \in 1..Len(exc_log) :
       /\ FailureContained(exc_log[n])
       /\ exc_log[n].method = METHOD_MULTI => TextRecorded(exc_log[n])
  /\ pc = "raised" => (tickers = <<>> \/ pos > Len(tickers))

\* the report row lists fc as skipped and emits no estimate row for it
SkippedWithoutRows(row, fc) ==
  /\ fc \in Range(row.skipped_factors)
  /\ fc \notin Range(row.ok_factors)
  /\ fc \notin Range(row.single_ok_factors)
  /\ ~ \E i \in (CurrentSingleBase + 1)..Len(upsert_rows') :
         upsert_rows'[i].factor_code = fc

\* the report row holds the count n for fc (the only per-factor counts of
\* a report row are those of single_n_obs_map)
CountRecorded(row, fc, n) ==
  \E i \in 1..Len(row.single_n_obs_map) : row.single_n_obs_map[i] = <<fc, n>>

\* C11: the report row that ends a security's regression stage lists every
\* candidate factor that is not eligible among the skipped factors together
\* with its overlap count, and no estimate row of the security is for such
\* a factor, whether or not the factor has data in the factor matrix.
C11_SkippedWithOverlapCount ==
  [][ pc = "multi" =>
        LET row == report_rows'[Len(report_rows')]
        IN \A fc \in Range(factor_codes) \ EligibleSet(ret_t, fwide) :
             /\ SkippedWithoutRows(row, fc)
             /\ CountRecorded(row, fc, Cardinality(BothPresent(ret_t, fwide, fc)))
    ]_vars

\* C11 without the count of the factors that have no data: ineligible
\* factors are listed as skipped and get no row, and the count is kept for
\* those that are columns of the factor matrix.
C11_SkippedListedNoRows ==
  [][ pc = "multi" =>
        LET row == report_rows'[Len(report_rows')]
        IN \A fc \in Range(factor_codes) \ EligibleSet(ret_t, fwide) :
             /\ SkippedWithoutRows(row, fc)
             /\ fc \in FwideColumns(fwide) =>
                  CountRecorded(row, fc, Cardinality(BothPresent(ret_t, fwide, fc)))
    ]_vars

\* ------------------------------------------------------------------- C12
\* the key the claim names, written out
ClaimKey(r) ==
  << r.asof_date, r.window_days, r.stock_code, r.factor_code, r.method,
     r.price_interval, r.lookback_window >>
Estimates(r) == << r.beta, r.alpha, r.r2, r.n_obs >>

\* the run in progress follows a finished run and has met the same inputs:
\* with one return series per source, the report rows of a run determine the
\* price source that answered and every solver outcome, so a run whose
\* report equals the report file of the run before it had the same inputs
SameInputsAsRunBefore ==
  /\ report_csv # <<>>
  /\ pc = "upsert"
  /\ report_rows = report_csv

\* C12: while a run that repeats the inputs of the finished run before it
\* persists its rows, the table keeps the same set of keys and the same
\* beta, alpha, r2 and n_obs under every key: rows are overwritten, none is
\* added.
C12_RerunIdempotent ==
  [][ SameInputsAsRunBefore =>
        /\ {ClaimKey(r) : r \in store'} = {ClaimKey(r) : r \in store}
        /\ Cardinality(store') = Cardinality(store)
        /\ \A r \in store, q \in store' :
             ClaimKey(r) = ClaimKey(q) => Estimates(r) = Estimates(q)
    ]_vars

\* a repeated run has stored every chunk of a payload of more than one chunk
C12_Witness ==
  /\ SameInputsAsRunBefore
  /\ upsert_i > Len(upsert_rows)
  /\ Len(upsert_rows) > UPSERT_CHUNK_SIZE
  /\ Cardinality(store) = Len(upsert_rows)

\* C12, table side: no two rows of the table share a key
C12_KeysUnique ==
  \A r, q \in store : ClaimKey(r) = ClaimKey(q) => r = q

\* ------------------------------------------------------------------- C14
\* position of the first digit of a text, 0 when it has none
FirstDigit(text) ==
  IF \E i \in 1..Len(text) : text[i] \in Digits
  THEN CHOOSE i \in 1..Len(text) :
         text[i] \in Digits /\ \A j \in 1..(i - 1) : text[j] \notin Digits
  ELSE 0

\* the digits from position i up to the next non-digit
FirstInteger(text) ==
  LET i == FirstDigit(text)
      j == CHOOSE e \in i..Len(text) :
             /\ \A h \in i..e : text[h] \in Digits
             /\ (e = Len(text) \/ text[e + 1] \notin Digits)
  IN SubSeq(text, i, j)

RECURSIVE Pow10(_)
Pow10(n) == IF n = 0 THEN 1 ELSE 10 * Pow10(n - 1)

\* the number a decimal text denotes: each digit times its place value
PlaceValue(ds) ==
  SumSeq([h \in 1..Len(ds) |-> DigitValue(ds[h]) * Pow10(Len(ds) - h)])

\* C14: parse_lag_policy returns the first integer embedded in the policy
\* text, negative exactly when a '-' immediately precedes its digits, and
\* returns 0 for an absent or empty text and for a text without a digit; it
\* returns an integer for every text.
C14_ParseFirstInteger ==
  lpc = "returned" =>
    /\ lag \in Int
    /\ IF policy = NONE \/ FirstDigit(policy) = 0
       THEN lag = 0
       ELSE LET i == FirstDigit(policy)
                n == PlaceValue(FirstInteger(policy))
            IN lag = IF i > 1 /\ policy[i - 1] = "-" THEN 0 - n ELSE n

\* a negative lag was parsed from a text that has other characters before
\* the sign
C14_Witness ==
  /\ lpc = "returned"
  /\ lag < 0
  /\ FirstDigit(policy) > 2

\* ------------------------------------------------------------------- C13
\* the dates a frame holds for a factor, ascending
DatesOfFactor(f, fc) == SortSet({r.record_date : r \in {q \in Range(f) : q.factor_code = fc}})

\* the lag of a factor in a frame whose rows all carry the factor's policy
LagOfFactor(f, fc) ==
  parse_lag_policy((CHOOSE r \in Range(f) : r.factor_code = fc).lag_policy)

\* the (date, value) pairs the claim gives factor fc: the i-th date with the
\* raw return of the (i - L)-th date, for every i that has such a date
ClaimedAligned(f, fc) ==
  LET ds == DatesOfFactor(f, fc)
      L  == LagOfFactor(f, fc)
  IN { <<ds[i], RawRet(fc, ds[i - L])>> : i \in {h \in 1..Len(ds) : h - L \in 1..Len(ds)} }

\* C13: for every factor of the frame, apply_factor_lags returns exactly one
\* row for each date that has a date L observations before it (after it for
\* a negative L) in the factor's own date-sorted series, carrying that
\* date's raw return; the first L (last |L|) dates of the factor have no row.
C13_ShiftByOwnLag ==
  apc = "returned" =>
    \A fc \in Range(LagFactors) :
      LET rows == Group(aligned, fc)
      IN /\ {<<r.record_date, r.aligned_ret>> : r \in Range(rows)} =
              IF \E r \in Range(fdf) : r.factor_code = fc
              THEN ClaimedAligned(fdf, fc) ELSE {}
         /\ \A i, j \in 1..Len(rows) : i < j => rows[i].record_date < rows[j].record_date

\* both factors have every date, one is delayed and one is advanced, so each
\* loses rows at a different end
C13_Witness ==
  /\ apc = "returned"
  /\ \E fc, gc \in Range(LagFactors) :
       /\ Len(DatesOfFactor(fdf, fc)) = MaxDate
       /\ Len(DatesOfFactor(fdf, gc)) = MaxDate
       /\ LagOfFactor(fdf, fc) > 0
       /\ LagOfFactor(fdf, gc) < 0
       /\ Len(Group(aligned, fc)) = MaxDate - LagOfFactor(fdf, fc)
       /\ Len(Group(aligned, gc)) = MaxDate + LagOfFactor(fdf, gc)

\* ----------------------------------------------------------- C15 and C16
\* the release dates of the observations passed
Releases == {AddMonths(df[i].record_date, release_lag_months) : i \in 1..Len(df)}
ReleaseInWindow(d) ==
  /\ d \in Releases
  /\ start_date # NoStart => start_date <= d
  /\ d <= end_date

\* rows holds the days a..b, each once, ascending
CoversAscending(rows, a, b) ==
  /\ Len(rows) = b - a + 1
  /\ \A i \in 1..Len(rows) : rows[i].record_date = a + i - 1

\* a release day carries the return of an observation released on it, every
\* other day carries 0
ValuesAsClaimed(rows) ==
  \A i \in 1..Len(rows) :
    IF rows[i].record_date \in Releases
    THEN \E j \in 1..Len(df) :
           /\ AddMonths(df[j].record_date, release_lag_months) = rows[i].record_date
           /\ rows[i].ret = df[j].ret
    ELSE rows[i].ret = 0

\* C15 as stated: when a release date falls in the window, the result has
\* one row for every day of the window [start_date, end_date], ascending,
\* with the observation's return on its release day and 0 on the other days.
C15_EveryDayOfWindow ==
  (epc = "returned" /\ start_date # NoStart /\ \E d \in Releases : ReleaseInWindow(d)) =>
    /\ CoversAscending(daily, start_date, end_date)
    /\ ValuesAsClaimed(daily)

\* C15 amended: the result has one row for every day from the later of
\* start_date and the earliest release date (the earliest release date when
\* no start_date is given) to end_date, each day once and ascending, with the
\* observation's return on its release day and 0 on the other days.
C15_EveryDayFromFirstRelease ==
  (epc = "returned" /\ Releases # {}) =>
    \A first \in Releases :
      (\A d \in Releases : first <= d) =>
        LET from == IF start_date # NoStart /\ start_date > first
                    THEN start_date ELSE first
        IN from <= end_date =>
             /\ CoversAscending(daily, from, end_date)
             /\ ValuesAsClaimed(daily)

\* the window opens before the earliest release date and holds a release
\* day and a day without release
C15_Witness ==
  /\ epc = "returned"
  /\ start_date # NoStart
  /\ \A d \in Releases : start_date < d
  /\ \E i, j \in 1..Len(daily) : daily[i].ret # 0 /\ daily[j].ret = 0

C16_WitnessAfterEnd ==
  /\ epc = "returned"
  /\ Releases # {}
  /\ \A d \in Releases : d > end_date
  /\ daily = <<>>

\* ------------------------------------------------------------------- C17
\* the step is an iteration of the loader that ended with [OK] for a factor
LoaderOk(code) ==
  /\ spec_i \in 1..Len(LoaderSpecs)
  /\ LoaderSpecs[spec_i].factor_code = code
  /\ loader_log' = Append(loader_log, <<code, "OK">>)

\* the rule the loader uses for the factor of the iteration
RuleOf(code) ==
  IF meta_map[code].ret_type # "None" THEN meta_map[code].ret_type
  ELSE (CHOOSE sp \in Range(LoaderSpecs) : sp.factor_code = code).ret_type

\* the levels the rule keeps: the positive ones for log_return, all others
Kept(lv, rule) ==
  IF rule = "log_return" THEN SelectSeq(lv, LAMBDA r : r.v > 0) ELSE lv

\* the number of returns the transform yields that are not NaN
ReturnCount(lv, rule) ==
  Cardinality({i \in 1..Len(compute_returns(lv, rule, DURATION_US10Y).series) :
                 ~compute_returns(lv, rule, DURATION_US10Y).series[i].ret.nan})

\* the rows the table holds for a factor on the dates of a level series
RowsOn(table, code, d) == {r \in table : r.factor_code = code /\ r.record_date = d}

\* C17 as stated: the transform yields one return per kept level but the
\* first, and an [OK] iteration leaves no row of the factor, with a null
\* return or any other, on the first date of the fetched series.
C17_NoRowForFirstDate ==
  [][ \A code \in {LoaderSpecs[i].factor_code : i \in 1..Len(LoaderSpecs)} :
        LoaderOk(code) =>
          /\ ReturnCount(level', RuleOf(code)) =
               (IF Kept(level', RuleOf(code)) = <<>> THEN 0
                ELSE Len(Kept(level', RuleOf(code))) - 1)
          /\ RowsOn(factor_returns', code, level'[1].date) \subseteq
               RowsOn(factor_returns, code, level'[1].date)
    ]_vars

\* C17 amended: the transform yields one return per kept level but the
\* first; an [OK] iteration stores one row for every fetched date from
\* store_from on, with a null return exactly on the dates that have no
\* return (the first kept date and, for log_return, the dates of
\* non-positive levels), so the first date of the source gets a row with a
\* null return whenever it is not before store_from.
C17_FirstDateStoredWithNullReturn ==
  [][ \A code \in {LoaderSpecs[i].factor_code : i \in 1..Len(LoaderSpecs)} :
        LoaderOk(code) =>
          LET rule == RuleOf(code)
              kept == Kept(level', rule)
          IN /\ ReturnCount(level', rule) = (IF kept = <<>> THEN 0 ELSE Len(kept) - 1)
             /\ \A i \in 1..Len(level') :
                  LET d == level'[i].date
                  IN IF d >= StartStore(factor_returns, code)
                     THEN \E r \in factor_returns' :
                            /\ RowsOn(factor_returns', code, d) = {r}
                            /\ r.level = level'[i].v
                            /\ r.ret.nan <=> (\A j \in 1..Len(kept) : kept[j].date = d => j = 1)
                     ELSE RowsOn(factor_returns', code, d) = RowsOn(factor_returns, code, d)
    ]_vars

\* the latest iteration ended with [OK] and left a row with a null return on
\* the first date of the series it fetched, and a row with a return
C17_Witness ==
  /\ loader_log # <<>>
  /\ loader_log[Len(loader_log)][2] = "OK"
  /\ \E r, q \in factor_returns :
       /\ r.factor_code = loader_log[Len(loader_log)][1]
       /\ q.factor_code = r.factor_code
       /\ r.record_date = level[1].date
       /\ r.level = level[1].v
       /\ r.ret.nan
       /\ ~q.ret.nan

\* ------------------------------------------------------------------- C18
\* the step is the iteration of the loader for a factor, and it reached the
\* transform: the fetch returned at least two levels
ReachedTransform(code) ==
  /\ spec_i \in 1..Len(LoaderSpecs)
  /\ LoaderSpecs[spec_i].factor_code = code
  /\ spec_i' = spec_i + 1
  /\ loader_log'[Len(loader_log')][2] \notin {"SKIP", "FAIL fetch", "INFO short"}

\* C18: compute_returns raises exactly when the rule is none of log_return,
\* diff_pp and duration_return; an iteration of the loader whose rule is
\* unsupported prints a failure for that factor, writes no return row and
\* no metadata, and moves on to the next factor of the list.
C18_UnsupportedFailsThatFactorOnly ==
  [][ \A code \in {LoaderSpecs[i].factor_code : i \in 1..Len(LoaderSpecs)} :
        ReachedTransform(code) =>
          LET rule == RuleOf(code)
              unsupported == rule \notin {"log_return", "diff_pp", "duration_return"}
          IN /\ compute_returns(level', rule, DURATION_US10Y).raised <=> unsupported
             /\ unsupported =>
                  /\ loader_log' = Append(loader_log, <<code, "FAIL transform">>)
                  /\ factor_returns' = factor_returns
                  /\ factor_metadata' = factor_metadata
             /\ ~unsupported /\ factor_returns' = factor_returns
                  /\ factor_metadata' = factor_metadata =>
                  loader_log'[Len(loader_log')][2] \in {"INFO no new rows", "FAIL transform"}
    ]_vars

\* the first factor failed on an unsupported rule with nothing written for
\* it, and the factor after it was processed and stored
C18_Witness ==
  /\ Len(loader_log) = Len(LoaderSpecs)
  /\ loader_log[1] = <<LoaderSpecs[1].factor_code, "FAIL transform">>
  /\ meta_map[LoaderSpecs[1].factor_code].ret_type = "pct_change"
  /\ loader_log[2] = <<LoaderSpecs[2].factor_code, "OK">>
  /\ factor_metadata[LoaderSpecs[1].factor_code] = meta_map[LoaderSpecs[1].factor_code]
  /\ \E r \in factor_returns : r.factor_code = LoaderSpecs[2].factor_code
  /\ \A r \in factor_returns :
       r.factor_code = LoaderSpecs[1].factor_code => r.level = 9

\* ------------------------------------------------------------------- C19
\* position of the last observation with a value received for a date
LastReceived(o, d) ==
  CHOOSE i \in 1..Len(o) :
    /\ o[i].date = d /\ o[i].ok
    /\ \A j \in 1..Len(o) : (o[j].date = d /\ o[j].ok) => j <= i

\* C19: the series a fetch returns has strictly increasing dates, exactly
\* the dates for which a value was received, each with the value received
\* last for it; and each cell of the pivoted factor matrix holds the value
\* of the last row of its (date, factor) pair.
C19_KeepLast ==
  /\ npc = "fetched" =>
       /\ \A i, j \in 1..Len(fred_series) : i < j => fred_series[i].date < fred_series[j].date
       /\ {fred_series[i].date : i \in 1..Len(fred_series)} =
            {obs[i].date : i \in {h \in 1..Len(obs) : obs[h].ok}}
       /\ \A i \in 1..Len(fred_series) :
            fred_series[i].value = obs[LastReceived(obs, fred_series[i].date)].value
  /\ npc = "pivoted" =>
       \A i \in 1..Len(aligned) :
         /\ aligned[i].factor_code \in DOMAIN pivoted
         /\ aligned[i].record_date \in DOMAIN pivoted[aligned[i].factor_code]
         /\ (\A j \in (i + 1)..Len(aligned) :
               ~(/\ aligned[j].factor_code = aligned[i].factor_code
                 /\ aligned[j].record_date = aligned[i].record_date))
              => pivoted[aligned[i].factor_code][aligned[i].record_date]
                   = aligned[i].aligned_ret

\* a date was received twice out of date order, the larger value first, and
\* the series keeps the smaller, later one
C19_Witness ==
  /\ npc = "fetched"
  /\ Len(fred_series) >= 2
  /\ \E i, j, h \in 1..Len(obs) :
       /\ i < j /\ j < h
       /\ obs[i].date = obs[h].date /\ obs[i].ok /\ obs[h].ok
       /\ obs[i].value > obs[h].value
       /\ obs[j].date < obs[i].date /\ obs[j].ok
       /\ \E n \in 1..Len(fred_series) :
            fred_series[n].date = obs[h].date /\ fred_series[n].value = obs[h].value

\* a (date, factor) pair has two rows with different values and the cell
\* holds the later one
C19_WitnessPivot ==
  /\ npc = "pivoted"
  /\ \E i, j \in 1..Len(aligned) :
       /\ i < j
       /\ aligned[i].factor_code = aligned[j].factor_code
       /\ aligned[i].record_date = aligned[j].record_date
       /\ aligned[i].aligned_ret > aligned[j].aligned_ret
       /\ pivoted[aligned[j].factor_code][aligned[j].record_date] = aligned[j].aligned_ret

\* ------------------------------------------------------------------- C20
\* dates present both in the factor series moved by the lag and in the
\* ticker series
OverlapOfLag(lg) ==
  Cardinality({d \in ticker_ret :
                 \E i \in 1..Len(factor_ret) :
                   /\ factor_ret[i] = d
                   /\ i - lg >= 1 /\ i - lg <= Len(factor_ret)})

\* the swept lags that qualify: enough overlap, beta and R2 finite
Qualifying ==
  {i \in 1..Len(sweep_log) :
     /\ OverlapOfLag(sweep_log[i].lag) >= DEFAULT_MIN_NOBS
     /\ sweep_log[i].beta.fin /\ sweep_log[i].r2.fin}

Magnitude(n) == IF n >= 0 THEN n ELSE 0 - n

SweepReturned == upc = "done" /\ Len(sweep_log) = Len(lags)

\* C20: after the sweep, the results are exactly the qualifying lags; the
\* best lag is one of them with the largest R2 and, among those, the
\* largest |beta|; when none qualifies there is no best lag and the stored
\* lag policy is the one before the run.
C20_BestLag ==
  SweepReturned =>
    /\ {results[i].lag : i \in 1..Len(results)} = {sweep_log[i].lag : i \in Qualifying}
    /\ IF Qualifying = {}
       THEN best = <<>> /\ lag_policy = StoredPolicy
       ELSE /\ Len(best) = 1
            /\ \E i \in Qualifying :
                 /\ best[1].lag = sweep_log[i].lag
                 /\ best[1].r2 = sweep_log[i].r2.v
                 /\ best[1].beta = sweep_log[i].beta.v
                 /\ \A j \in Qualifying :
                      /\ sweep_log[j].r2.v <= sweep_log[i].r2.v
                      /\ sweep_log[j].r2.v = sweep_log[i].r2.v
                           => Magnitude(sweep_log[j].beta.v) <= Magnitude(sweep_log[i].beta.v)

\* three lags were swept, one had a fit that was not finite, two tied on the
\* largest R2, and the one with the negative beta of larger magnitude was
\* chosen and written to the metadata
C20_Witness ==
  /\ SweepReturned
  /\ ~dry_run
  /\ Cardinality(Qualifying) = 2
  /\ \E i \in 1..Len(sweep_log) :
       OverlapOfLag(sweep_log[i].lag) >= DEFAULT_MIN_NOBS /\ ~sweep_log[i].r2.fin
  /\ \A i, j \in Qualifying : sweep_log[i].r2 = sweep_log[j].r2
  /\ Len(best) = 1
  /\ best[1].beta < 0
  /\ \E i \in Qualifying : sweep_log[i].beta.v > 0
  /\ lag_policy = StrOfLag(best[1].lag)

\* no lag qualified: no best lag, the policy kept
C20_WitnessNone ==
  /\ SweepReturned
  /\ ~dry_run
  /\ Qualifying = {}
  /\ \E i \in 1..Len(sweep_log) : OverlapOfLag(sweep_log[i].lag) >= DEFAULT_MIN_NOBS
  /\ best = <<>>
  /\ lag_policy = StoredPolicy

\* ------------------------------------------------------------------- C21
\* C21: once the factor matrix is built, no step of the run changes it: the
\* matrix every security is joined with, and the one left after the last
\* security, is the one built before the first.
C21_FactorMatrixReadOnly == [][pc # "build_factors" => fwide' = fwide]_vars

\* two securities were joined with the matrix and regressed, and the run
\* has ended with the matrix still holding every date
C21_Witness ==
  /\ pc = "done"
  /\ Len(report_rows) = MaxTickers
  /\ \A i \in 1..Len(report_rows) : report_rows[i].status = "OK"
  /\ FwideIndex(fwide) = Dates

\* ------------------------------------------------------------------- C22
DelaySensitive == {"F_SECTOR_US_TECH"}

\* the step is the iteration of a factor and its metadata row is written
MetadataWritten(code) ==
  /\ spec_i \in 1..Len(specs)
  /\ specs[spec_i].factor_code = code
  /\ factor_metadata'[code] # factor_metadata[code]

\* the step stores returns of the factor
ReturnsStored(code) ==
  /\ spec_i \in 1..Len(specs)
  /\ specs[spec_i].factor_code = code
  /\ loader_log' = Append(loader_log, <<code, "OK">>)

HasPolicy(row) == row.lag_policy \notin {"None", "", " "}

C22_WitnessExplicit ==
  /\ spec_i > Len(specs)
  /\ \E i \in 1..Len(loader_log) : loader_log[i] = <<"F_SECTOR_US_TECH", "OK">>
  /\ factor_metadata["F_SECTOR_US_TECH"].lag_policy = "2"
  /\ factor_metadata["F_SECTOR_US_TECH"].source = "YFINANCE"

\* ------------------------------------------------------------------- C23
\* the run is over: it wrote its report, or the upsert raised
RunEnded == pos > Len(tickers) /\ tickers # <<>> /\ pc \in {"done", "raised"}

\* the outcomes of the run that are a skip or a failure: the report rows
\* collected with status SKIP or FAIL, and those that list a factor the
\* single pass skipped or failed on
SkipOrFailRows ==
  {i \in 1..Len(report_rows) :
     \/ report_rows[i].status \in {"SKIP", "FAIL"}
     \/ report_rows[i].single_skipped_factors # <<>>
     \/ report_rows[i].single_failed_factors # <<>>}

\* C23: when a run is over, every skip or fail outcome it collected is a row
\* of the report file, with its reason, also when the upsert failed.
C23_OutcomesInWrittenReport ==
  RunEnded =>
    \A i \in SkipOrFailRows :
      \E j \in 1..Len(report_csv) : report_csv[j] = report_rows[i]

\* what holds: a run whose upsert succeeds writes every row it collected
C23_OutcomesInReportWhenStored ==
  (RunEnded /\ pc = "done") => report_csv = report_rows

\* ------------------------------------------------------------------- C24
\* the requests that failed since the last one that was answered
TrailingFailures ==
  Cardinality({i \in 1..Len(call_log) :
                 \A j \in i..Len(call_log) : call_log[j] = "raise"})

\* C24: a failing request is tried again, a bounded number of times, and a
\* call whose attempts all failed returns to its caller without data; no
\* call ends by raising.
C24_RetriedThenAbsent ==
  /\ TrailingFailures <= max_retries
  /\ cpc # "raised"
  /\ (cpc # "call" /\ TrailingFailures > 0) => TrailingFailures > 1

\* what holds for the three functions: the select of the lag updater raises
\* after max_retries failed attempts of a page, the select of the beta
\* loader raises at the first failure, the price fetch returns None at the
\* first failure
C24_AsCoded ==
  /\ callee = "update_factor_lag_policy.sb_select_all" =>
       (cpc = "raised" <=> TrailingFailures = max_retries)
  /\ callee = "ticker_factor_beta_loader.sb_select_all" =>
       (cpc = "raised" <=> TrailingFailures = 1)
  /\ callee = "fetch_price_returns_yf" =>
       /\ cpc # "raised"
       /\ Len(call_log) <= 1
       /\ TrailingFailures = 1 => cpc = "returned None"

\* ------------------------------------------------------------------- C25
CodesOf(table) == {r.factor_code : r \in table}

\* the codes that lose a stored date in the step (an upsert that replaces
\* the row of a date deletes nothing)
DeletedCodes ==
  {r.factor_code : r \in {q \in factor_returns :
      ~ \E n \in factor_returns' :
          n.factor_code = q.factor_code /\ n.record_date = q.record_date}}

\* the step is the part of main before the loop
BeforeLoop == spec_i = 0 /\ spec_i' = 1

\* the step is the iteration of a factor of a --full-refresh run: no row of
\* the factor is left when its last date is looked up, and what the
\* iteration stores starts at default_start
ReloadsFromDefaultStart ==
  (spec_i \in 1..Len(specs) /\ spec_i' = spec_i + 1 /\ full_refresh) =>
     /\ LastDate(factor_returns, specs[spec_i].factor_code) = NoDate
     /\ \A r \in factor_returns' \ factor_returns : r.record_date >= default_start

\* --full-refresh without --factor-codes deletes nothing and loads nothing
RefreshNeedsCodes ==
  (full_refresh /\ target_factor_codes = <<>>) =>
     /\ factor_returns' = factor_returns
     /\ BeforeLoop => specs' = <<>>

\* C25: rows are deleted only before the loop and only for codes of the
\* specs the run loads; each of them is then loaded from default_start;
\* --full-refresh without codes deletes and loads nothing.
C25_DeletesWhatItReloads ==
  [][ /\ DeletedCodes # {} => (BeforeLoop /\ DeletedCodes \subseteq SpecCodes(specs'))
      /\ ReloadsFromDefaultStart
      /\ RefreshNeedsCodes ]_vars

\* what holds: the rows deleted are those of the codes given, whether or
\* not build_factor_specs has a spec for them
C25_DeletesCodesGiven ==
  [][ /\ DeletedCodes # {} =>
           /\ BeforeLoop /\ full_refresh
           /\ DeletedCodes = CodesOf(factor_returns) \cap Range(target_factor_codes)
      /\ ReloadsFromDefaultStart
      /\ RefreshNeedsCodes ]_vars

\* ------------------------------------------------------------------- C26
\* the positions in the batch of the rows of one security, factor and method
BatchRowsOf(code, fc, method) ==
  {i \in 1..Len(upsert_rows) :
     /\ upsert_rows[i].stock_code = code
     /\ upsert_rows[i].factor_code = fc
     /\ upsert_rows[i].method = method}

\* C26: with a universe of pairwise distinct stock codes, no two rows of the
\* batch that main hands to upsert_beta_rows share the conflict key
\* (asof_date, window_days, stock_code, factor_code, method, price_interval,
\* lookback_window); a security has at most one single-method row and at
\* most one multi-method row per factor.
C26_BatchKeysDistinct ==
  /\ \A i, j \in 1..Len(upsert_rows) :
        i # j => ConflictKey(upsert_rows[i]) # ConflictKey(upsert_rows[j])
  /\ \A t \in Range(tickers), fc \in Range(factor_codes),
        method \in {METHOD_SINGLE, METHOD_MULTI} :
        Cardinality(BatchRowsOf(t.stock_code, fc, method)) <= 1

\* a finished run of two securities whose batch holds, for one factor and
\* one as-of date, the single and the multi row of one security and the
\* single row of the other security
C26_Witness ==
  /\ pc = "done"
  /\ Len(tickers) = MaxTickers
  /\ \E i, j, h \in 1..Len(upsert_rows) :
       /\ upsert_rows[i].method = METHOD_SINGLE
       /\ upsert_rows[j].method = METHOD_MULTI
       /\ upsert_rows[h].method = METHOD_SINGLE
       /\ upsert_rows[i].stock_code = upsert_rows[j].stock_code
       /\ upsert_rows[h].stock_code # upsert_rows[i].stock_code
       /\ upsert_rows[i].factor_code = upsert_rows[j].factor_code
       /\ upsert_rows[h].factor_code = upsert_rows[i].factor_code
       /\ upsert_rows[i].asof_date = upsert_rows[j].asof_date
       /\ upsert_rows[h].asof_date = upsert_rows[i].asof_date

\* ------------------------------------------------------------------- C27
\* the step appends a report row: the iteration of one security ends
ReportStep == Len(report_rows') = Len(report_rows) + 1

\* the estimate rows the step appends to the batch
EmittedRows == SubSeq(upsert_rows', Len(upsert_rows) + 1, Len(upsert_rows'))

\* C27: the report row of a security has status OK exactly when the
\* iteration emitted multi-factor rows for it; the as-of date and n_obs it
\* reports are those of the multi-factor sample and of the rows emitted;
\* multi-factor rows are emitted nowhere else, so the rows a SKIP or FAIL
\* security has in the batch are single-factor rows.
C27_OkIffMultiRows ==
  [][ /\ ReportStep =>
           LET r == report_rows'[Len(report_rows')]
               sample == MultiSample(ret_t, fwide, ok_factors)
           IN /\ r.status \in {"OK", "SKIP", "FAIL"}
              /\ r.status = "OK" <=> EmittedRows # <<>>
              /\ \A i \in 1..Len(EmittedRows) :
                    /\ EmittedRows[i].method = METHOD_MULTI
                    /\ EmittedRows[i].stock_code = r.stock_code
                    /\ EmittedRows[i].asof_date = r.asof_date
                    /\ EmittedRows[i].n_obs = r.n_obs
              /\ r.status = "OK" =>
                    /\ pc = "multi"
                    /\ sample # <<>>
                    /\ r.asof_date = IndexMax(sample)
                    /\ r.n_obs = Len(sample)
              /\ r.status # "OK" => r.asof_date = NoDate
      /\ ~ ReportStep =>
           \A i \in 1..Len(EmittedRows) : EmittedRows[i].method = METHOD_SINGLE ]_vars

\* a finished run in which the multi regression failed for the security
\* and the batch holds single-factor rows for it and no multi-factor row
C27_Witness ==
  /\ pc = "done"
  /\ Len(report_csv) = 1
  /\ report_csv[1].status = "FAIL"
  /\ report_csv[1].single_ok_factors # <<>>
  /\ BatchRowsOf(report_csv[1].stock_code, report_csv[1].single_ok_factors[1],
                 METHOD_SINGLE) # {}
  /\ \A i \in 1..Len(upsert_rows) : upsert_rows[i].method = METHOD_SINGLE

\* a finished run in which the security is reported OK with the as-of date
\* and n_obs of its multi-factor rows, which differ from those of one of
\* its single-factor rows
C27_WitnessOk ==
  /\ pc = "done"
  /\ Len(report_csv) = 1
  /\ report_csv[1].status = "OK"
  /\ \E i, j \in 1..Len(upsert_rows) :
       /\ upsert_rows[i].method = METHOD_MULTI
       /\ upsert_rows[i].n_obs = report_csv[1].n_obs
       /\ upsert_rows[i].asof_date = report_csv[1].asof_date
       /\ upsert_rows[j].method = METHOD_SINGLE
       /\ upsert_rows[j].n_obs # report_csv[1].n_obs
       /\ upsert_rows[j].asof_date # report_csv[1].asof_date

\* ------------------------------------------------------------------- C28
\* the widest lag a sweep given by --lag-min and --lag-max is drawn from
MaxLagAbs == 12
SweepLags == (0 - MaxLagAbs)..MaxLagAbs

\* C28: for every integer lag a sweep can hold, negative, zero or positive,
\* parse_lag_policy gives back the lag from the text str(lag) that
\* update_lag_policy writes; in a run of the calibrator that updates the
\* metadata, the policy stored parses to the best lag of the sweep.
C28_LagRoundTrip ==
  /\ \A n \in SweepLags : parse_lag_policy(update_lag_policy(n)) = n
  /\ \A i \in 1..Len(lags) : lags[i] \in SweepLags
  /\ (upc = "done" /\ best # <<>> /\ ~ dry_run) =>
        parse_lag_policy(lag_policy) = best[1].lag

\* the calibrator has replaced the stored policy by the text of a negative
\* best lag
C28_Witness ==
  /\ upc = "done"
  /\ ~ dry_run
  /\ best # <<>>
  /\ best[1].lag < 0
  /\ lag_policy = <<"-", "1">>
  /\ lag_policy # StoredPolicy

\* the best lag written is zero, which is also what a missing policy
\* parses to
C28_WitnessZero ==
  /\ upc = "done"
  /\ ~ dry_run
  /\ best # <<>>
  /\ best[1].lag = 0
  /\ lag_policy = <<"0">>

\* the best lag written is positive
C28_WitnessPositive ==
  /\ upc = "done"
  /\ ~ dry_run
  /\ best # <<>>
  /\ best[1].lag > 0
  /\ lag_policy = <<"1">>

\* ------------------------------------------------------------------- C29
\* all entries of the group hold the same token and token_issued_at
GroupSynced(entries, kk) ==
  \A i, j \in GroupItems(entries, kk) :
    /\ entries[i].token = entries[j].token
    /\ entries[i].token_issued_at = entries[j].token_issued_at

\* the token of the group, read from its first entry, is still valid
TokenValid(first_item) == ~ should_refresh(first_item)

\* the step is an iteration of the loop over the groups
GroupStep == Len(group_log') = Len(group_log) + 1

\* a failed reissue modifies no entry; the file is written only when a
\* token was issued or an entry differs from the file
FailedAndSaved ==
  /\ (GroupStep /\ group_log'[Len(group_log')].how = "failed") => auth_data' = auth_data
  /\ file_writes' # file_writes =>
       \/ \E n \in 1..Len(group_log) : group_log[n].how = "issued"
       \/ auth_data # auth_file

\* C29, as stated: after refresh_tokens completes, the entries of every
\* group whose token was still valid or was reissued hold the same token and
\* token_issued_at; a failed reissue modifies no entry of the group; the auth
\* file is rewritten only if a token was issued or an entry changed.
C29_GroupsShareToken ==
  [][ /\ tpc' = "done" =>
           \A n \in 1..Len(group_log') :
             (TokenValid(group_log'[n].first_item) \/ group_log'[n].how = "issued")
               => GroupSynced(auth_data', group_log'[n].app_key)
      /\ FailedAndSaved ]_vars

\* C29, amended: the same for the groups whose first entry has an
\* app_secret; a group whose first entry has none is left as it is,
\* whatever its token.
C29_GroupsWithSecretShareToken ==
  [][ /\ tpc' = "done" =>
           \A n \in 1..Len(group_log') :
             LET g == group_log'[n]
             IN ( \/ Truthy(g.first_item.app_secret) /\ TokenValid(g.first_item)
                  \/ g.how = "issued" )
                  => GroupSynced(auth_data', g.app_key)
      /\ GroupStep => LET g == group_log'[Len(group_log')]
                      IN ~ Truthy(g.first_item.app_secret) => auth_data' = auth_data
      /\ FailedAndSaved ]_vars

\* the run is over: the first entry of a group of two held a valid token,
\* the second none; both hold it now and the file was rewritten although no
\* token was issued
C29_Witness ==
  /\ tpc = "done"
  /\ file_writes = 1
  /\ Len(auth_data) = 2
  /\ Len(group_log) = 1
  /\ group_log[1].how = "valid"
  /\ auth_data[1].token = "t1"
  /\ auth_data[2] = [auth_data[1] EXCEPT !.app_secret = auth_data[2].app_secret]
  /\ auth_file = auth_data

\* the run is over: the token of a group of two was reissued and both
\* entries hold the new token
C29_WitnessIssued ==
  /\ tpc = "done"
  /\ file_writes = 1
  /\ Len(group_log) = 1
  /\ group_log[1].how = "issued"
  /\ Len(auth_file) = 2
  /\ \A i \in 1..2 : auth_file[i].token = "new" /\ auth_file[i].token_issued_at = now_kst

\* the run is over: the reissue of a group of two failed, its entries
\* differ as before and the file was not written
C29_WitnessFailed ==
  /\ tpc = "done"
  /\ file_writes = 0
  /\ Len(group_log) = 1
  /\ group_log[1].how = "failed"
  /\ Len(auth_data) = 2
  /\ auth_data = auth_file
  /\ auth_data[1].token # auth_data[2].token

\* ------------------------------------------------------------------- C30
\* C30, as stated: for any sequence of responses a balance query makes at
\* most MAX_PAGES requests and then returns a result or None.
C30_TerminatesWithResultOrNone ==
  /\ Len(response_log) <= MAX_PAGES
  /\ bpc \in {"call", "returned result", "returned None"}
  /\ bpc = "call" => Len(response_log) < MAX_PAGES

\* what holds: at most MAX_PAGES requests are made, one per iteration; the
\* query goes on only while fewer were made; a query that raises is one of
\* main.py after a failed request, any of the four after JSON without
\* rt_cd, or fetch_balance_irp of main_local.py with cash_amt unassigned.
C30_BoundedRequests ==
  /\ Len(response_log) = page_count
  /\ page_count <= MAX_PAGES
  /\ bpc = "call" => page_count < MAX_PAGES
  /\ bpc = "raised" =>
       LET r == response_log[Len(response_log)]
       IN \/ r.kind = "raise" /\ ~ CatchesRequestErrors(fetcher)
          \/ r.kind = "no rt_cd"
          \/ /\ r.kind = "page"
             /\ fetcher = "main_local.fetch_balance_irp"
             /\ cash_amt = <<>>

\* a query that received a continuation on every page ends with a result
\* after MAX_PAGES requests
C30_WitnessLimit ==
  /\ bpc = "returned result"
  /\ page_count = MAX_PAGES
  /\ \A n \in 1..Len(response_log) :
       /\ response_log[n].kind = "page"
       /\ response_log[n].output1 = "rows"
       /\ response_log[n].nk = "key"
       /\ response_log[n].tr_cont = "M"

====
